---------------------------- MODULE Spec2Model ----------------------------
(***************************************************************************)
(* FetcherBot: submission ledger (receipts.jsonl / errors.jsonl), the      *)
(* mining-history reconciliation, the retry-all coordinator, the           *)
(* challenge history ledger, the dev fee manager, nonce generation, the    *)
(* reward statistics, the mining configuration and the profile manager.    *)
(*                                                                         *)
(* Timestamps are milliseconds since the epoch (what Date.getTime() gives  *)
(* for the ISO strings the code stores; toISOString / new Date(iso) is     *)
(* exact to the millisecond).  A solution key is the triple (address,      *)
(* challenge_id, nonce); the code joins the three with ':' and none of     *)
(* them contains a ':'.  The fields hash, crypto_receipt, response and     *)
(* no_pre_mine_hour are only copied by the code and are left out.          *)
(***************************************************************************)
EXTENDS Integers, Sequences, FiniteSets, TLC

VARIABLES
    receiptsFile,    \* receipts.jsonl: sequence of Receipt lines
    errorsFile,      \* errors.jsonl: sequence of ErrorLog lines
    now,             \* Date.now(), ms
    lastHistory,     \* <<response of the last GET mining history, with the logs it read>>
    lastRemove,      \* <<last direct removeError call: its key and the log before it>>
    retry,           \* the retry-all invocations: position, selection, results
    recorded,        \* keys whose outcome a miner has recorded
    history,         \* ChallengeHistoryLogger.history (a Map, in insertion order)
    historyFile,     \* challenge-history.json
    initialized,     \* ChallengeHistoryLogger.initialized
    lastCall,        \* last ledger call: its arguments, the time and what it returned
    feeConfig,       \* DevFeeManager.config of the running manager
    feeCache,        \* DevFeeManager.cache of the running manager
    feeFile,         \* .devfee_cache.json: <<>> when absent, else <<cache>>
    prefetch,        \* the prefetchAddressPool call in flight: <<>> or <<[i, addresses]>>
    lastFee,         \* last DevFeeManager call and what it returned
    lastNonce,       \* the last generateNonce calls: argument, random draws, outcome
    lastStats,       \* <<last computeStats call: its arguments and what it returned>>
    configFile,      \* mining-config.json: <<>> when absent, else <<config>>
    lastConfig,      \* last ConfigManager call and what it returned
    peer,            \* a second ChallengeHistoryLogger on the same file: <<>> or <<[history, initialized]>>
    builtInProfiles, \* ProfileManager.builtInProfiles (a Map, in insertion order)
    customProfiles,  \* ProfileManager.customProfiles (a Map, in insertion order)
    activeProfile,   \* ProfileManager.activeProfile: <<>> for null, else <<profile>>
    activeProfileFile,  \* active-profile.json: <<>> when absent, else <<[profileId]>>
    lastProfile      \* last ProfileManager call and what it returned

subVars == <<receiptsFile, errorsFile, lastHistory, lastRemove>>
retryVars == <<retry, recorded>>
ledgerVars == <<history, historyFile, initialized, lastCall>>
feeVars == <<feeConfig, feeCache, feeFile, prefetch, lastFee>>
profileVars == <<builtInProfiles, customProfiles, activeProfile, activeProfileFile, lastProfile>>
toolVars == <<lastNonce, lastStats, configFile, lastConfig, peer, profileVars>>
vars == <<receiptsFile, errorsFile, now, lastHistory, lastRemove, retry, recorded,
          history, historyFile, initialized, lastCall,
          feeConfig, feeCache, feeFile, prefetch, lastFee,
          lastNonce, lastStats, configFile, lastConfig, peer,
          builtInProfiles, customProfiles, activeProfile, activeProfileFile, lastProfile>>

---------------------------------------------------------------------------
(* Bounds *)

MaxLines == 3        \* lines of errors.jsonl and receipts.jsonl together (SpecReconcile)
MaxTs == 1           \* caller-supplied timestamps range over 0..MaxTs (SpecReconcile)

MaxTicks == 1        \* the clock advances at most MaxTicks times (SpecRetry)
TickMs == 86400000   \* by a day each time

MaxLedgerTicks == 1  \* the clock advances at most MaxLedgerTicks times (SpecLedger)
LedgerTickMs == 900000   \* by fifteen minutes each time
MaxChanges == 2      \* entries of one challenge's difficultyChanges (SpecLedger)

Messages == {"timeout", "rejected"}

\* The solutions the ledger is exercised on: they differ in the nonce only.
Keys == { <<"addr1", "chalA", "n1">>, <<"addr1", "chalA", "n2">> }

AddressIndexOf(address) == IF address = "addr1" THEN 0 ELSE 1

---------------------------------------------------------------------------
(* Helpers *)

\* Array.prototype.sort (stable) under a comparator that orders the elements by
\* a pair of numbers: keys[i] = <<k1, k2>> of seq[i], ascending in k1, then in k2;
\* elements the comparator calls equal keep their order.
StableSort(seq, keys) ==
    LET n == Len(seq)
        Before(i, j) == \/ keys[i][1] < keys[j][1]
                        \/ keys[i][1] = keys[j][1] /\ keys[i][2] < keys[j][2]
        Rank(i) == Cardinality({ j \in 1..n :
                       Before(j, i) \/ (~Before(i, j) /\ j < i) })
    IN  [ p \in 1..n |-> seq[CHOOSE i \in 1..n : Rank(i) = p - 1] ]

Range(seq) == { seq[i] : i \in 1..Len(seq) }

\* `${address}:${challenge_id}:${nonce}`
KeyOf(e) == <<e.address, e.challenge_id, e.nonce>>

---------------------------------------------------------------------------
(* ReceiptsLogger *)

Receipt(key, ts) ==
    [ts |-> ts, address |-> key[1], addressIndex |-> AddressIndexOf(key[1]),
     challenge_id |-> key[2], nonce |-> key[3]]

ErrorLog(key, ts, msg) ==
    [ts |-> ts, address |-> key[1], addressIndex |-> AddressIndexOf(key[1]),
     challenge_id |-> key[2], nonce |-> key[3], error |-> msg]

\* fs.appendFileSync(receiptsFile, JSON.stringify(receipt) + '\n')
logReceipt(file, receipt) == Append(file, receipt)

\* fs.appendFileSync(errorsFile, JSON.stringify(errorLog) + '\n')
logError(file, errorLog) == Append(file, errorLog)

\* A line JSON.parse accepts as an event (every line the logger writes); a torn or
\* foreign line is [text |-> ...]
IsEvent(line) == "ts" \in DOMAIN line

\* Lines that are not events: one JSON.parse rejects, and one it parses to null
MalformedLines == { [text |-> "{torn"], [text |-> "null"] }

\* readReceipts(): the lines that parse, in file order. A line JSON.parse throws on
\* becomes null inside the map and is filtered out, as is a line that is `null`.
MutReadReceiptsAllOrNothing(file) ==
    IF \E i \in 1..Len(file) : ~IsEvent(file[i]) THEN <<>> ELSE file
readReceipts(file) == SelectSeq(file, IsEvent)

\* readErrors(): the lines that parse, in file order
MutReadErrorsUntilMalformed(file) ==
    LET bad == { i \in 1..Len(file) : ~IsEvent(file[i]) }
    IN  IF bad = {} THEN file
        ELSE SubSeq(file, 1, (CHOOSE i \in bad : \A j \in bad : i <= j) - 1)
readErrors(file) == SelectSeq(file, IsEvent)

\* Rewrites errors.jsonl without the lines whose address, challenge_id and nonce all match.
MutRemoveErrorInverted(file, address, challengeId, nonce) ==
    SelectSeq(file, LAMBDA line :
        line.address = address /\ line.challenge_id = challengeId /\ line.nonce = nonce)
MutRemoveErrorOnce(file, address, challengeId, nonce) ==
    LET hits == { i \in 1..Len(file) :
                    /\ IsEvent(file[i])
                    /\ file[i].address = address
                    /\ file[i].challenge_id = challengeId
                    /\ file[i].nonce = nonce }
        first == IF hits = {} THEN 0 ELSE CHOOSE i \in hits : \A j \in hits : i <= j
    IN  IF first = 0 THEN file
        ELSE [i \in 1..(Len(file) - 1) |-> IF i < first THEN file[i] ELSE file[i + 1]]
MutRemoveErrorByNonce(file, address, challengeId, nonce) ==
    SelectSeq(file, LAMBDA line : IF IsEvent(line) THEN line.nonce # nonce ELSE FALSE)
removeError(file, address, challengeId, nonce) ==
    SelectSeq(file, LAMBDA line :
        IF IsEvent(line)
        THEN ~(/\ line.address = address
               /\ line.challenge_id = challengeId
               /\ line.nonce = nonce)
        ELSE TRUE)

---------------------------------------------------------------------------
(* GET mining history: the reconciliation *)

\* receipts.sort / rawErrors.sort: timestamp descending
SortByTsDesc(seq) == StableSort(seq, [i \in 1..Len(seq) |-> <<0 - seq[i].ts, 0>>])

UniqueError(error) ==
    [ts |-> error.ts, address |-> error.address, addressIndex |-> error.addressIndex,
     challenge_id |-> error.challenge_id, nonce |-> error.nonce, error |-> error.error,
     retryCount |-> 1, lastAttempt |-> error.ts]

\* One step of rawErrors.forEach over errorMap (a Map: insertion order, one value per key).
MutFoldFirstOnly(map, error) ==
    IF \E i \in 1..Len(map) : KeyOf(map[i]) = KeyOf(error)
    THEN map
    ELSE Append(map, UniqueError(error))
ErrorMapStep(map, error) ==
    IF ~(\E i \in 1..Len(map) : KeyOf(map[i]) = KeyOf(error))
    THEN Append(map, UniqueError(error))
    ELSE LET i == CHOOSE i \in 1..Len(map) : KeyOf(map[i]) = KeyOf(error)
             existing == map[i]
             counted == [existing EXCEPT !.retryCount = @ + 1]
             latest == IF error.ts > counted.lastAttempt
                       THEN [counted EXCEPT !.lastAttempt = error.ts, !.error = error.error]
                       ELSE counted
             earliest == IF error.ts < latest.ts
                         THEN [latest EXCEPT !.ts = error.ts]
                         ELSE latest
         IN  [map EXCEPT ![i] = earliest]

RECURSIVE ErrorMapFrom(_, _, _)
ErrorMapFrom(rawErrors, i, map) ==
    IF i > Len(rawErrors) THEN map
    ELSE ErrorMapFrom(rawErrors, i + 1, ErrorMapStep(map, rawErrors[i]))

\* Array.from(errorMap.values())
uniqueErrors(rawErrors) == ErrorMapFrom(SortByTsDesc(rawErrors), 1, <<>>)

\* new Set(receipts.map(r => key))
successfulSolutions(receipts) == { KeyOf(receipts[i]) : i \in 1..Len(receipts) }

\* failedErrors.sort: lastAttempt descending
SortByLastAttemptDesc(seq) ==
    StableSort(seq, [i \in 1..Len(seq) |-> <<0 - seq[i].lastAttempt, 0>>])

MutFailedErrorsNoFilter(receipts, rawErrors) ==
    SortByLastAttemptDesc(uniqueErrors(rawErrors))
\* uniqueErrors.filter(no receipt).sort(lastAttempt descending)
failedErrors(receipts, rawErrors) ==
    SortByLastAttemptDesc(
        SelectSeq(uniqueErrors(rawErrors),
                  LAMBDA e : KeyOf(e) \notin successfulSolutions(receipts)))

\* addressHistoryMap: one entry per (addressIndex, challenge_id), in insertion order
HistoryKeyOf(e) == <<e.addressIndex, e.challenge_id>>

HistoryIndexOf(map, key) ==
    IF \E i \in 1..Len(map) : <<map[i].addressIndex, map[i].challengeId>> = key
    THEN CHOOSE i \in 1..Len(map) : <<map[i].addressIndex, map[i].challengeId>> = key
    ELSE 0

AddressHistory(e, lastAttempt) ==
    [addressIndex |-> e.addressIndex, address |-> e.address,
     challengeId |-> e.challenge_id, successCount |-> 0, failureCount |-> 0,
     totalAttempts |-> 0, status |-> "pending", lastAttempt |-> lastAttempt,
     failures |-> <<>>, successTimestamp |-> <<>>]

\* failedErrors.forEach body
HistoryFailureStep(map, error) ==
    LET had == HistoryIndexOf(map, HistoryKeyOf(error))
        held == IF had = 0 THEN Append(map, AddressHistory(error, error.lastAttempt))
                ELSE map
        i == HistoryIndexOf(held, HistoryKeyOf(error))
    IN  [held EXCEPT ![i] =
            [@ EXCEPT !.failureCount = @ + 1,
                      !.totalAttempts = @ + 1,
                      !.failures = Append(@, [ts |-> error.ts, nonce |-> error.nonce,
                                              error |-> error.error]),
                      !.lastAttempt = IF error.lastAttempt > @ THEN error.lastAttempt
                                      ELSE @]]

\* receipts.forEach body
HistorySuccessStep(map, receipt) ==
    LET had == HistoryIndexOf(map, HistoryKeyOf(receipt))
        held == IF had = 0 THEN Append(map, AddressHistory(receipt, receipt.ts)) ELSE map
        i == HistoryIndexOf(held, HistoryKeyOf(receipt))
    IN  [held EXCEPT ![i] =
            [@ EXCEPT !.successCount = @ + 1,
                      !.totalAttempts = @ + 1,
                      !.status = "success",
                      !.successTimestamp = <<receipt.ts>>,
                      !.lastAttempt = IF receipt.ts > @ THEN receipt.ts ELSE @]]

RECURSIVE HistoryFailuresFrom(_, _, _)
HistoryFailuresFrom(failed, i, map) ==
    IF i > Len(failed) THEN map
    ELSE HistoryFailuresFrom(failed, i + 1, HistoryFailureStep(map, failed[i]))

RECURSIVE HistorySuccessesFrom(_, _, _)
HistorySuccessesFrom(receipts, i, map) ==
    IF i > Len(receipts) THEN map
    ELSE HistorySuccessesFrom(receipts, i + 1, HistorySuccessStep(map, receipts[i]))

\* addressHistory: failures, then successes, then the status of the entries with
\* failures only, sorted by lastAttempt descending
MutAddressHistoryFailureWins(receipts, failed) ==
    LET map == HistorySuccessesFrom(receipts, 1, HistoryFailuresFrom(failed, 1, <<>>))
        settled == [i \in 1..Len(map) |->
                       IF map[i].failureCount > 0
                       THEN [map[i] EXCEPT !.status = "failed"]
                       ELSE map[i]]
    IN  StableSort(settled, [i \in 1..Len(settled) |-> <<0 - settled[i].lastAttempt, 0>>])
addressHistory(receipts, failed) ==
    LET map == HistorySuccessesFrom(receipts, 1, HistoryFailuresFrom(failed, 1, <<>>))
        settled == [i \in 1..Len(map) |->
                       IF map[i].successCount = 0 /\ map[i].failureCount > 0
                       THEN [map[i] EXCEPT !.status = "failed"]
                       ELSE map[i]]
    IN  StableSort(settled, [i \in 1..Len(settled) |-> <<0 - settled[i].lastAttempt, 0>>])

\* The part of the response the ledger claims read.
Reconcile(rFile, eFile) ==
    LET receipts == SortByTsDesc(readReceipts(rFile))
        rawErrors == readErrors(eFile)
    IN  [receipts |-> receipts,
         errors |-> failedErrors(receipts, rawErrors),
         addressHistory |-> addressHistory(receipts, failedErrors(receipts, rawErrors)),
         totalSolutions |-> Len(receipts),
         totalRetryAttempts |-> Len(rawErrors),
         snapReceipts |-> rFile,
         snapErrors |-> eFile]

---------------------------------------------------------------------------
(* SpecReconcile: the two logs under arbitrary appends, and the history view *)

InitLedgerIdle ==
    /\ history = <<>>
    /\ historyFile = <<>>
    /\ initialized = FALSE
    /\ lastCall = <<>>

InitRetryIdle ==
    /\ retry = <<>>
    /\ recorded = {}

\* generateClientId(): `desktop-` and 16 random bytes
ClientIds == {"desktop-a", "desktop-b"}

\* The cache loadCache() returns when it reads no file
DefaultCache ==
    [currentAddress |-> <<>>, totalDevFeeSolutions |-> 0, addressPool |-> <<>>,
     clientId |-> <<>>, lastFetchError |-> <<>>, poolFetchedAt |-> <<>>]

\* loadCache(): the parsed cache file; the default cache when there is no file or
\* when reading throws. configSet tells whether this.config is assigned yet:
\* reading this.config.cacheFile before that throws inside the try block.
loadCache(configSet, file) ==
    IF ~configSet THEN DefaultCache
    ELSE IF file # <<>> THEN file[1]
    ELSE DefaultCache

\* new DevFeeManager({enabled}): loadCache() runs before this.config is assigned;
\* a cache without clientId gets the generated one and is saved.
Constructed(file, enabled, generated) ==
    LET cache == loadCache(FALSE, file)
        clientId == IF cache.clientId # <<>> THEN cache.clientId[1] ELSE generated
        saved == [cache EXCEPT !.clientId = <<clientId>>]
    IN  [config |-> [enabled |-> enabled, clientId |-> clientId],
         cache |-> IF cache.clientId = <<>> THEN saved ELSE cache,
         file |-> IF cache.clientId = <<>> THEN <<saved>> ELSE file]

\* The singleton devFeeManager, constructed with the defaults and no cache file
InitFeeIdle ==
    /\ feeConfig = Constructed(<<>>, TRUE, "desktop-a").config
    /\ feeCache = Constructed(<<>>, TRUE, "desktop-a").cache
    /\ feeFile = Constructed(<<>>, TRUE, "desktop-a").file
    /\ prefetch = <<>>
    /\ lastFee = <<>>

\* new ProfileManager() without profile files and without active-profile.json
InitProfileIdle ==
    /\ builtInProfiles = <<>>
    /\ customProfiles = <<>>
    /\ activeProfile = <<>>
    /\ activeProfileFile = <<>>
    /\ lastProfile = <<>>

\* No nonce generated, no statistics computed, no mining-config.json, no second
\* ledger instance
InitToolIdle ==
    /\ lastNonce = <<>>
    /\ lastStats = <<>>
    /\ configFile = <<>>
    /\ lastConfig = <<>>
    /\ peer = <<>>
    /\ InitProfileIdle

InitReconcile ==
    /\ receiptsFile = <<>>
    /\ errorsFile = <<>>
    /\ now = 0
    /\ lastHistory = <<>>
    /\ lastRemove = <<>>
    /\ InitRetryIdle
    /\ InitLedgerIdle
    /\ InitFeeIdle
    /\ InitToolIdle

\* receiptsLogger.logError(errorLog): the caller supplies the whole record.
LogError ==
    /\ Len(errorsFile) + Len(receiptsFile) < MaxLines
    /\ \E key \in Keys, ts \in 0..MaxTs, msg \in Messages :
           errorsFile' = logError(errorsFile, ErrorLog(key, ts, msg))
    /\ UNCHANGED <<receiptsFile, now, lastHistory, lastRemove, retryVars, ledgerVars, feeVars, toolVars>>

\* receiptsLogger.logReceipt(receipt)
LogReceipt ==
    /\ Len(errorsFile) + Len(receiptsFile) < MaxLines
    /\ \E key \in Keys, ts \in 0..MaxTs :
           receiptsFile' = logReceipt(receiptsFile, Receipt(key, ts))
    /\ UNCHANGED <<errorsFile, now, lastHistory, lastRemove, retryVars, ledgerVars, feeVars, toolVars>>

\* GET mining history
MutGetHistoryDrains ==
    /\ lastHistory' = <<Reconcile(receiptsFile, errorsFile)>>
    /\ errorsFile' = SelectSeq(errorsFile, LAMBDA line :
                         KeyOf(line) \notin successfulSolutions(readReceipts(receiptsFile)))
    /\ UNCHANGED <<receiptsFile, now, lastRemove, retryVars, ledgerVars, feeVars, toolVars>>
GetHistory ==
    /\ lastHistory' = <<Reconcile(receiptsFile, errorsFile)>>
    /\ UNCHANGED <<receiptsFile, errorsFile, now, lastRemove, retryVars, ledgerVars, feeVars, toolVars>>

NextReconcile == LogError \/ LogReceipt \/ GetHistory

SpecReconcile == InitReconcile /\ [][NextReconcile]_vars

---------------------------------------------------------------------------
(* SpecRemove: removeError on logs that hold events of several keys and lines *)
(* that are not events                                                     *)

MaxRemoveLines == 3    \* lines of errors.jsonl at the start (SpecRemove)

\* Solutions that differ from the first in the address, the challenge or the nonce
RemoveKeys ==
    { <<"addr1", "chalA", "n1">>, <<"addr2", "chalA", "n1">>,
      <<"addr1", "chalB", "n1">>, <<"addr1", "chalA", "n2">> }

\* The lines a log is made of: an event of each key, a later event of the first
\* key, and the lines that are not events
RemoveLines ==
    { ErrorLog(key, 0, "rejected") : key \in RemoveKeys }
        \cup { ErrorLog(<<"addr1", "chalA", "n1">>, 1, "timeout") }
        \cup MalformedLines

SeqsUpTo(S, n) == UNION { [1..m -> S] : m \in 0..n }

\* receiptsLogger.removeError(address, challengeId, nonce)
RemoveError ==
    /\ \E key \in RemoveKeys :
          /\ errorsFile' = removeError(errorsFile, key[1], key[2], key[3])
          /\ receiptsFile' = receiptsFile
          /\ lastRemove' = <<[key |-> key, before |-> errorsFile, after |-> errorsFile',
                              receiptsBefore |-> receiptsFile,
                              receiptsAfter |-> receiptsFile']>>
    /\ UNCHANGED <<now, lastHistory, retryVars, ledgerVars, feeVars, toolVars>>

InitRemove ==
    /\ receiptsFile \in { <<>>, <<Receipt(<<"addr1", "chalA", "n2">>, 0)>> }
    /\ errorsFile \in SeqsUpTo(RemoveLines, MaxRemoveLines)
    /\ now = 0
    /\ lastHistory = <<>>
    /\ lastRemove = <<>>
    /\ InitRetryIdle
    /\ InitLedgerIdle
    /\ InitFeeIdle
    /\ InitToolIdle

NextRemove == RemoveError \/ GetHistory

SpecRemove == InitRemove /\ [][NextRemove]_vars

---------------------------------------------------------------------------
(* SpecRead: readReceipts and readErrors on logs with lines that do not parse *)

\* The lines a log is made of: events of the solutions and the lines that are
\* not events
ReadReceiptLines == { Receipt(key, 0) : key \in Keys } \cup MalformedLines

ReadErrorLines == { ErrorLog(key, 0, "rejected") : key \in Keys } \cup MalformedLines

\* receiptsLogger.readReceipts() and receiptsLogger.readErrors(), once
ReadLogs ==
    /\ lastHistory = <<>>
    /\ lastHistory' = <<[receipts |-> readReceipts(receiptsFile),
                         errors |-> readErrors(errorsFile),
                         snapReceipts |-> receiptsFile,
                         snapErrors |-> errorsFile]>>
    /\ UNCHANGED <<receiptsFile, errorsFile, now, lastRemove, retryVars, ledgerVars,
                   feeVars, toolVars>>

InitRead ==
    /\ receiptsFile \in SeqsUpTo(ReadReceiptLines, MaxRemoveLines)
    /\ errorsFile \in SeqsUpTo(ReadErrorLines, MaxRemoveLines)
    /\ now = 0
    /\ lastHistory = <<>>
    /\ lastRemove = <<>>
    /\ InitRetryIdle
    /\ InitLedgerIdle
    /\ InitFeeIdle
    /\ InitToolIdle

NextRead == ReadLogs

SpecRead == InitRead /\ [][NextRead]_vars

---------------------------------------------------------------------------
(* POST /api/mining/retry-all *)

RetryWindowMs == 86400000      \* 24 * 60 * 60 * 1000

\* One step of rawErrors.forEach over errorMap: the most recent error of each
\* solution that has no receipt (Map.set on a key it holds keeps the key's place).
MutRetryMapNoDedup(map, error, successful) ==
    IF KeyOf(error) \in successful THEN map ELSE Append(map, error)
RetryMapStep(map, error, successful) ==
    IF KeyOf(error) \in successful THEN map
    ELSE IF ~(\E i \in 1..Len(map) : KeyOf(map[i]) = KeyOf(error))
    THEN Append(map, error)
    ELSE LET i == CHOOSE i \in 1..Len(map) : KeyOf(map[i]) = KeyOf(error)
         IN  IF error.ts > map[i].ts THEN [map EXCEPT ![i] = error] ELSE map

RECURSIVE RetryMapFrom(_, _, _, _)
RetryMapFrom(rawErrors, i, map, successful) ==
    IF i > Len(rawErrors) THEN map
    ELSE RetryMapFrom(rawErrors, i + 1,
                      RetryMapStep(map, rawErrors[i], successful), successful)

\* Array.from(errorMap.values()).filter(ts > Date.now() - 24h)
MutRecentErrorsNoWindow(rawErrors, receipts, nowMs) ==
    RetryMapFrom(rawErrors, 1, <<>>, successfulSolutions(receipts))
recentErrors(rawErrors, receipts, nowMs) ==
    LET twentyFourHoursAgo == nowMs - RetryWindowMs
    IN  SelectSeq(RetryMapFrom(rawErrors, 1, <<>>, successfulSolutions(receipts)),
                  LAMBDA error : error.ts > twentyFourHoursAgo)

\* The overlapping requests the server may be handling.
Invocations == {"req1", "req2"}

RetryIdle ==
    [pc |-> "idle", recentErrors |-> <<>>, i |-> 0, results |-> <<>>,
     succeeded |-> 0, failed |-> 0, total |-> 0]

RetryResult(error, success) ==
    [address |-> error.address, challengeId |-> error.challenge_id,
     nonce |-> error.nonce, success |-> success]

\* Lines 21-79: the profile checks, the two reads, the selection; then the first
\* axios.post is issued (or the empty summary returned).
RetryAllStart(r) ==
    /\ retry[r].pc = "idle"
    /\ \E hasApiBase \in BOOLEAN :
         IF ~hasApiBase
         THEN retry' = [retry EXCEPT ![r].pc = "badRequest"]
         ELSE LET selected == recentErrors(readErrors(errorsFile),
                                           readReceipts(receiptsFile), now)
              IN  retry' = [retry EXCEPT ![r] =
                      IF Len(selected) = 0
                      THEN [RetryIdle EXCEPT !.pc = "done"]
                      ELSE [RetryIdle EXCEPT !.pc = "posting", !.recentErrors = selected,
                                             !.i = 1]]
    /\ UNCHANGED <<receiptsFile, errorsFile, now, lastHistory, lastRemove, recorded, ledgerVars, feeVars, toolVars>>

\* Lines 90-118: the post resolved; the receipt is appended, the failure removed.
RetryAllAccepted(r) ==
    /\ retry[r].pc = "posting"
    /\ LET error == retry[r].recentErrors[retry[r].i]
       IN  /\ receiptsFile' = logReceipt(receiptsFile, Receipt(KeyOf(error), now))
           /\ errorsFile' = removeError(errorsFile, error.address, error.challenge_id,
                                        error.nonce)
           /\ retry' = [retry EXCEPT ![r].results = Append(@, RetryResult(error, TRUE)),
                                     ![r].succeeded = @ + 1,
                                     ![r].pc = "delay"]
    /\ UNCHANGED <<now, lastHistory, lastRemove, recorded, ledgerVars, feeVars, toolVars>>

\* Lines 120-132: the post was rejected, timed out or failed; only the result is kept.
MutRetryAllRejectedAborts(r) ==
    /\ retry[r].pc = "posting"
    /\ LET error == retry[r].recentErrors[retry[r].i]
       IN  retry' = [retry EXCEPT ![r].results = Append(@, RetryResult(error, FALSE)),
                                 ![r].failed = @ + 1,
                                 ![r].total = Len(retry[r].recentErrors),
                                 ![r].pc = "done"]
    /\ UNCHANGED <<receiptsFile, errorsFile, now, lastHistory, lastRemove, recorded, ledgerVars, feeVars, toolVars>>
RetryAllRejected(r) ==
    /\ retry[r].pc = "posting"
    /\ LET error == retry[r].recentErrors[retry[r].i]
       IN  retry' = [retry EXCEPT ![r].results = Append(@, RetryResult(error, FALSE)),
                                 ![r].failed = @ + 1,
                                 ![r].pc = "delay"]
    /\ UNCHANGED <<receiptsFile, errorsFile, now, lastHistory, lastRemove, recorded, ledgerVars, feeVars, toolVars>>

\* Lines 134-149: the 200 ms delay ended; the next post is issued or the summary returned.
MutRetryAllDelayRepeats(r) ==
    /\ retry[r].pc = "delay"
    /\ retry' = [retry EXCEPT ![r] =
           IF Len(retry[r].results) < Len(retry[r].recentErrors) + 1
           THEN [@ EXCEPT !.pc = "posting"]
           ELSE [@ EXCEPT !.pc = "done", !.total = Len(retry[r].recentErrors)]]
    /\ UNCHANGED <<receiptsFile, errorsFile, now, lastHistory, lastRemove, recorded, ledgerVars, feeVars, toolVars>>
RetryAllDelay(r) ==
    /\ retry[r].pc = "delay"
    /\ retry' = [retry EXCEPT ![r] =
           IF retry[r].i < Len(retry[r].recentErrors)
           THEN [@ EXCEPT !.i = @ + 1, !.pc = "posting"]
           ELSE [@ EXCEPT !.pc = "done", !.total = Len(retry[r].recentErrors)]]
    /\ UNCHANGED <<receiptsFile, errorsFile, now, lastHistory, lastRemove, recorded, ledgerVars, feeVars, toolVars>>

\* The response has been sent; the server can take the next request.
RetryAllReturn(r) ==
    /\ retry[r].pc \in {"done", "badRequest"}
    /\ retry' = [retry EXCEPT ![r] = RetryIdle]
    /\ UNCHANGED <<receiptsFile, errorsFile, now, lastHistory, lastRemove, recorded, ledgerVars, feeVars, toolVars>>

\* A miner records the outcome of a solution it found, once per solution.
MinerRecord ==
    /\ \E key \in Keys \ recorded :
          /\ recorded' = recorded \cup {key}
          /\ \/ /\ errorsFile' = logError(errorsFile, ErrorLog(key, now, "rejected"))
                /\ UNCHANGED receiptsFile
             \/ /\ receiptsFile' = logReceipt(receiptsFile, Receipt(key, now))
                /\ UNCHANGED errorsFile
    /\ UNCHANGED <<now, lastHistory, lastRemove, retry, ledgerVars, feeVars, toolVars>>

Tick ==
    /\ now + TickMs <= MaxTicks * TickMs
    /\ now' = now + TickMs
    /\ UNCHANGED <<receiptsFile, errorsFile, lastHistory, lastRemove, retry, recorded, ledgerVars, feeVars, toolVars>>

InitRetry ==
    /\ receiptsFile = <<>>
    /\ errorsFile = <<>>
    /\ now = 0
    /\ lastHistory = <<>>
    /\ lastRemove = <<>>
    /\ retry = [r \in Invocations |-> RetryIdle]
    /\ recorded = {}
    /\ InitLedgerIdle
    /\ InitFeeIdle
    /\ InitToolIdle

NextRetry ==
    \/ \E r \in Invocations :
          \/ RetryAllStart(r)
          \/ RetryAllAccepted(r)
          \/ RetryAllRejected(r)
          \/ RetryAllDelay(r)
          \/ RetryAllReturn(r)
    \/ MinerRecord
    \/ Tick

SpecRetry == InitRetry /\ [][NextRetry]_vars

\* SpecRetrySelect: one retry-all request over logs that callers append to freely
NextRetrySelect ==
    \/ LogError
    \/ LogReceipt
    \/ RetryAllStart("req1")
    \/ RetryAllAccepted("req1")
    \/ RetryAllRejected("req1")
    \/ RetryAllDelay("req1")
    \/ RetryAllReturn("req1")
    \/ Tick

SpecRetrySelect == InitRetry /\ [][NextRetrySelect]_vars

\* recentFailures: failedErrors.filter(lastAttempt > Date.now() - 24h)
MutRecentFailuresByFirstTs(failed, nowMs) ==
    SelectSeq(failed, LAMBDA e : e.ts > nowMs - RetryWindowMs)
recentFailures(failed, nowMs) ==
    LET twentyFourHoursAgo == nowMs - RetryWindowMs
    IN  SelectSeq(failed, LAMBDA e : e.lastAttempt > twentyFourHoursAgo)

\* The response of GET mining history with its summary.recentFailureCount, and
\* the instant it was computed at
ReconcileAt(rFile, eFile, nowMs) ==
    LET response == Reconcile(rFile, eFile)
    IN  [receipts |-> response.receipts,
         errors |-> response.errors,
         addressHistory |-> response.addressHistory,
         totalSolutions |-> response.totalSolutions,
         totalRetryAttempts |-> response.totalRetryAttempts,
         recentFailureCount |-> Len(recentFailures(response.errors, nowMs)),
         snapReceipts |-> rFile,
         snapErrors |-> eFile,
         at |-> nowMs]

\* GET mining history, once
GetHistoryAt ==
    /\ lastHistory = <<>>
    /\ lastHistory' = <<ReconcileAt(receiptsFile, errorsFile, now)>>
    /\ UNCHANGED <<receiptsFile, errorsFile, now, lastRemove, retryVars, ledgerVars,
                   feeVars, toolVars>>

\* SpecEligible: GET mining history and one retry-all request on logs that hold
\* events from a day before now (exactly 24 hours old when now is a day) and a
\* millisecond later, several per solution, and a receipt or none
EligibleErrorLines == { ErrorLog(key, ts, "rejected") : key \in Keys, ts \in {0, 1} }

InitEligible ==
    /\ receiptsFile \in { <<>>, <<Receipt(<<"addr1", "chalA", "n1">>, 1)>> }
    /\ errorsFile \in SeqsUpTo(EligibleErrorLines, MaxLines)
    /\ now \in {TickMs, TickMs + 1}
    /\ lastHistory = <<>>
    /\ lastRemove = <<>>
    /\ retry = [r \in Invocations |-> RetryIdle]
    /\ recorded = { KeyOf(errorsFile[i]) : i \in 1..Len(errorsFile) }
    /\ InitLedgerIdle
    /\ InitFeeIdle
    /\ InitToolIdle

NextEligible ==
    \/ GetHistoryAt
    \/ RetryAllStart("req1")
    \/ RetryAllAccepted("req1")
    \/ RetryAllRejected("req1")
    \/ RetryAllDelay("req1")

SpecEligible == InitEligible /\ [][NextEligible]_vars

\* SpecRetryOld: one retry-all request that is handled a day or more after the
\* logs began, so that events can be older than the 24 hours
InitRetryOld ==
    /\ receiptsFile = <<>>
    /\ errorsFile = <<>>
    /\ now \in {TickMs, TickMs + 1}
    /\ lastHistory = <<>>
    /\ lastRemove = <<>>
    /\ retry = [r \in Invocations |-> RetryIdle]
    /\ recorded = {}
    /\ InitLedgerIdle
    /\ InitFeeIdle
    /\ InitToolIdle

NextRetryOld ==
    \/ LogError
    \/ LogReceipt
    \/ RetryAllStart("req1")
    \/ RetryAllAccepted("req1")
    \/ RetryAllRejected("req1")
    \/ RetryAllDelay("req1")
    \/ RetryAllReturn("req1")

SpecRetryOld == InitRetryOld /\ [][NextRetryOld]_vars

\* SpecRetryIo: one retry-all request whose file operations can fail. logReceipt
\* and removeError catch the error of appendFileSync / writeFileSync and only
\* log it, so the handler goes on whatever the outcome.
RetryAllAcceptedIo(r) ==
    /\ retry[r].pc = "posting"
    /\ \E appended \in BOOLEAN, rewritten \in BOOLEAN :
          LET error == retry[r].recentErrors[retry[r].i]
          IN  /\ receiptsFile' = IF appended
                                 THEN logReceipt(receiptsFile, Receipt(KeyOf(error), now))
                                 ELSE receiptsFile
              /\ errorsFile' = IF rewritten
                               THEN removeError(errorsFile, error.address,
                                                error.challenge_id, error.nonce)
                               ELSE errorsFile
              /\ retry' = [retry EXCEPT ![r].results = Append(@, RetryResult(error, TRUE)),
                                        ![r].succeeded = @ + 1,
                                        ![r].pc = "delay"]
    /\ UNCHANGED <<now, lastHistory, lastRemove, recorded, ledgerVars, feeVars, toolVars>>

\* The failure log the request finds: events of the solutions, recorded by the
\* miners before the request
InitRetryIo ==
    /\ receiptsFile = <<>>
    /\ errorsFile \in SeqsUpTo({ ErrorLog(key, 0, "rejected") : key \in Keys }, MaxLines)
    /\ now = 0
    /\ lastHistory = <<>>
    /\ lastRemove = <<>>
    /\ retry = [r \in Invocations |-> RetryIdle]
    /\ recorded = { KeyOf(errorsFile[i]) : i \in 1..Len(errorsFile) }
    /\ InitLedgerIdle
    /\ InitFeeIdle
    /\ InitToolIdle

NextRetryIo ==
    \/ RetryAllStart("req1")
    \/ RetryAllAcceptedIo("req1")
    \/ RetryAllRejected("req1")
    \/ RetryAllDelay("req1")
    \/ RetryAllReturn("req1")

SpecRetryIo == InitRetryIo /\ [][NextRetryIo]_vars

\* SpecInterleave: removeError by one writer of errors.jsonl, as the two file
\* operations it is made of, while another writer appends failures. Nothing in
\* removeError or logError takes a lock on the file.

\* Lines 362-367: existsSync and readFileSync; without a file removeError returns.
\* An empty log is a file without lines or no file at all.
RemoveErrorRead ==
    /\ lastRemove = <<>>
    /\ \E key \in Keys, exists \in IF errorsFile = <<>> THEN BOOLEAN ELSE {TRUE} :
          lastRemove' = <<[key |-> key, content |-> errorsFile,
                           pc |-> IF exists THEN "read" ELSE "done"]>>
    /\ UNCHANGED <<receiptsFile, errorsFile, now, lastHistory, retryVars, ledgerVars,
                   feeVars, toolVars>>

\* Lines 369-390: the lines read are filtered and written over the file
RemoveErrorWrite ==
    /\ lastRemove # <<>>
    /\ lastRemove[1].pc = "read"
    /\ LET key == lastRemove[1].key
       IN  errorsFile' = removeError(lastRemove[1].content, key[1], key[2], key[3])
    /\ lastRemove' = <<[lastRemove[1] EXCEPT !.pc = "done"]>>
    /\ UNCHANGED <<receiptsFile, now, lastHistory, retryVars, ledgerVars, feeVars,
                   toolVars>>

\* Another writer records the failure of a solution: logError appends one line
WriterLogError ==
    /\ \E key \in Keys \ recorded :
          /\ errorsFile' = logError(errorsFile, ErrorLog(key, now, "rejected"))
          /\ recorded' = recorded \cup {key}
    /\ UNCHANGED <<receiptsFile, now, lastHistory, lastRemove, retry, ledgerVars,
                   feeVars, toolVars>>

InitInterleave ==
    /\ receiptsFile = <<>>
    /\ errorsFile \in SeqsUpTo({ ErrorLog(key, 0, "timeout") : key \in Keys }, MaxLines)
    /\ now = 0
    /\ lastHistory = <<>>
    /\ lastRemove = <<>>
    /\ retry = <<>>
    /\ recorded = {}
    /\ InitLedgerIdle
    /\ InitFeeIdle
    /\ InitToolIdle

NextInterleave == RemoveErrorRead \/ RemoveErrorWrite \/ WriterLogError

SpecInterleave == InitInterleave /\ [][NextInterleave]_vars


\* SpecRetryLive: one retry-all request whose file operations succeed, under the
\* scheduling the code has: axios.post carries a timeout of 30 s, so every post
\* resolves or rejects, and the 200 ms timer of the delay fires.
NextRetryLive ==
    \/ RetryAllStart("req1")
    \/ RetryAllAccepted("req1")
    \/ RetryAllRejected("req1")
    \/ RetryAllDelay("req1")
    \/ RetryAllReturn("req1")

SpecRetryLive ==
    /\ InitRetryIo
    /\ [][NextRetryLive]_vars
    /\ WF_vars(RetryAllAccepted("req1") \/ RetryAllRejected("req1"))
    /\ WF_vars(RetryAllDelay("req1"))

---------------------------------------------------------------------------
(* ChallengeHistoryLogger *)

Profiles == {"profA", "profB"}
ChallengeIds == {"D01C01", "D01C02", "D01C03"}
\* Difficulty strings, as sequences of characters
Difficulties == { <<"0", "a">>, <<"f", "f">> }
\* latest_submission values the authority sends
Deadlines == { LedgerTickMs, 2 * LedgerTickMs }
DefaultValidityHours == 24
ValidityHints == {DefaultValidityHours, 1}
DefaultMinTimeRemainingMinutes == 15

\* The challenge object of a poll response
Challenges ==
    [challenge_id : ChallengeIds, difficulty : Difficulties, no_pre_mine : {"day1"},
     latest_submission : Deadlines]

\* SpecLedger: one challenge, re-observed with any difficulty and deadline
LedgerChallenges == { c \in Challenges : c.challenge_id = "D01C01" }

\* SpecSelect: two challenges of different difficulty, each with any deadline
SelectChallenges ==
    { c \in Challenges : \/ c.challenge_id = "D01C01" /\ c.difficulty = <<"0", "a">>
                         \/ c.challenge_id = "D01C02" /\ c.difficulty = <<"f", "f">> }

\* SpecOrder: three challenges that never change: an easy one (0x100) with the
\* latest deadline, an equally easy one with an earlier deadline, and a harder one
\* (0xff) of another day with the earliest deadline
OrderChallenges ==
    { [challenge_id |-> "D01C01", difficulty |-> <<"1", "0", "0">>, no_pre_mine |-> "day1",
       latest_submission |-> 3 * LedgerTickMs],
      [challenge_id |-> "D01C02", difficulty |-> <<"1", "0", "0">>, no_pre_mine |-> "day1",
       latest_submission |-> 2 * LedgerTickMs],
      [challenge_id |-> "D01C03", difficulty |-> <<"f", "f">>, no_pre_mine |-> "day2",
       latest_submission |-> LedgerTickMs] }

HexDigits == <<"0", "1", "2", "3", "4", "5", "6", "7", "8", "9",
               "a", "b", "c", "d", "e", "f">>
HexUpper == <<"0", "1", "2", "3", "4", "5", "6", "7", "8", "9",
              "A", "B", "C", "D", "E", "F">>

IsHexDigit(c) == \E v \in 1..16 : HexDigits[v] = c \/ HexUpper[v] = c
HexValue(c) == (CHOOSE v \in 1..16 : HexDigits[v] = c \/ HexUpper[v] = c) - 1

\* parseInt(str, 16): the value of the longest prefix of hexadecimal digits
\* (NaN, written -1 here, when there is none; no difficulty of the model is such).
RECURSIVE ParseHexFrom(_, _, _)
ParseHexFrom(str, i, acc) ==
    IF i > Len(str) \/ ~IsHexDigit(str[i]) THEN acc
    ELSE ParseHexFrom(str, i + 1, acc * 16 + HexValue(str[i]))

parseInt16(str) ==
    IF Len(str) = 0 \/ ~IsHexDigit(str[1]) THEN 0 - 1 ELSE ParseHexFrom(str, 1, 0)

\* The index of a challenge_id in the Map, 0 when the Map does not hold it
IndexOf(map, challengeId) ==
    IF \E i \in 1..Len(map) : map[i].challenge_id = challengeId
    THEN CHOOSE i \in 1..Len(map) : map[i].challenge_id = challengeId
    ELSE 0

\* initialize(): the migration of one entry read from the file
Migrated(entry) ==
    IF entry.expiresAt # entry.latest_submission
    THEN [entry EXCEPT !.expiresAt = entry.latest_submission]
    ELSE entry

\* initialize(): loads challenge-history.json once, migrates, saves when it migrated.
\* L = [history, file, initialized]; file is <<>> when it does not exist, else <<entries>>.
Initialize(L) ==
    IF L.initialized THEN L
    ELSE IF L.file = <<>> THEN [L EXCEPT !.initialized = TRUE]
    ELSE LET entries == L.file[1]
             loaded == [i \in 1..Len(entries) |-> Migrated(entries[i])]
         IN  [history |-> loaded,
              file |-> IF loaded # entries THEN <<loaded>> ELSE L.file,
              initialized |-> TRUE]

Logger == [history |-> history, file |-> historyFile, initialized |-> initialized]

\* logChallenge, existing entry: lastSeenAt, latest_submission and the difficulty
\* (with its change log) are updated; expiresAt is not assigned.
MutUpdateKeepsDifficulty(existing, challenge, nowMs) ==
    IF challenge.difficulty # existing.difficulty
    THEN [existing EXCEPT !.lastSeenAt = nowMs,
                          !.latest_submission = challenge.latest_submission,
                          !.difficultyChanges = Append(@,
                               [timestamp |-> nowMs, oldDifficulty |-> existing.difficulty,
                                newDifficulty |-> challenge.difficulty])]
    ELSE [existing EXCEPT !.lastSeenAt = nowMs,
                          !.latest_submission = challenge.latest_submission]
UpdatedEntry(existing, challenge, nowMs) ==
    LET seen == [existing EXCEPT !.lastSeenAt = nowMs,
                                 !.latest_submission = challenge.latest_submission]
    IN  IF challenge.difficulty # seen.difficulty
        THEN [seen EXCEPT !.difficultyChanges = Append(@,
                              [timestamp |-> nowMs, oldDifficulty |-> seen.difficulty,
                               newDifficulty |-> challenge.difficulty]),
                          !.difficulty = challenge.difficulty]
        ELSE seen

\* logChallenge, new entry
MutNewEntryDerivedExpiry(challenge, profileId, validityHours, nowMs) ==
    [challenge_id |-> challenge.challenge_id, difficulty |-> challenge.difficulty,
     no_pre_mine |-> challenge.no_pre_mine,
     latest_submission |-> challenge.latest_submission,
     firstSeenAt |-> nowMs, lastSeenAt |-> nowMs, profileId |-> profileId,
     validityHours |-> validityHours,
     expiresAt |-> nowMs + validityHours * 3600000,
     difficultyChanges |-> <<>>]
NewEntry(challenge, profileId, validityHours, nowMs) ==
    [challenge_id |-> challenge.challenge_id, difficulty |-> challenge.difficulty,
     no_pre_mine |-> challenge.no_pre_mine,
     latest_submission |-> challenge.latest_submission,
     firstSeenAt |-> nowMs, lastSeenAt |-> nowMs, profileId |-> profileId,
     validityHours |-> validityHours,
     expiresAt |-> challenge.latest_submission,
     difficultyChanges |-> <<>>]

\* getValidChallenges / exportForApi: the profile's entries with expiresAt > now,
\* newest firstSeenAt first
MutValidNotExpiredYet(map, profileId, nowMs) ==
    LET kept == SelectSeq(map, LAMBDA entry :
                    entry.profileId = profileId /\ entry.expiresAt >= nowMs)
    IN  StableSort(kept, [i \in 1..Len(kept) |-> <<0 - kept[i].firstSeenAt, 0>>])
MutValidInsertionOrder(map, profileId, nowMs) ==
    SelectSeq(map, LAMBDA entry :
        entry.profileId = profileId /\ entry.expiresAt > nowMs)
getValidChallenges(map, profileId, nowMs) ==
    LET kept == SelectSeq(map, LAMBDA entry :
                    entry.profileId = profileId /\ entry.expiresAt > nowMs)
    IN  StableSort(kept, [i \in 1..Len(kept) |-> <<0 - kept[i].firstSeenAt, 0>>])

exportForApi(map, profileId, nowMs) == getValidChallenges(map, profileId, nowMs)

\* getEasiestValidChallenge: <<>> for null, else <<entry>>
MutEasiestDifficultyOnly(map, profileId, minTimeRemainingMinutes, nowMs) ==
    LET minTimeMs == minTimeRemainingMinutes * 60 * 1000
        validChallenges == SelectSeq(map, LAMBDA entry :
                               /\ entry.profileId = profileId
                               /\ entry.expiresAt - nowMs > minTimeMs)
        sorted == StableSort(validChallenges,
                      [i \in 1..Len(validChallenges) |->
                          <<0 - parseInt16(validChallenges[i].difficulty), 0>>])
    IN  IF Len(validChallenges) = 0 THEN <<>> ELSE <<sorted[1]>>
MutEasiestAtLeast(map, profileId, minTimeRemainingMinutes, nowMs) ==
    LET minTimeMs == minTimeRemainingMinutes * 60 * 1000
        validChallenges == SelectSeq(map, LAMBDA entry :
                               /\ entry.profileId = profileId
                               /\ entry.expiresAt - nowMs >= minTimeMs)
        sorted == StableSort(validChallenges,
                      [i \in 1..Len(validChallenges) |->
                          <<0 - parseInt16(validChallenges[i].difficulty),
                            validChallenges[i].expiresAt>>])
    IN  IF Len(validChallenges) = 0 THEN <<>> ELSE <<sorted[1]>>
getEasiestValidChallenge(map, profileId, minTimeRemainingMinutes, nowMs) ==
    LET minTimeMs == minTimeRemainingMinutes * 60 * 1000
        validChallenges == SelectSeq(map, LAMBDA entry :
                               /\ entry.profileId = profileId
                               /\ entry.expiresAt - nowMs > minTimeMs)
        sorted == StableSort(validChallenges,
                      [i \in 1..Len(validChallenges) |->
                          <<0 - parseInt16(validChallenges[i].difficulty),
                            validChallenges[i].expiresAt>>])
    IN  IF Len(validChallenges) = 0 THEN <<>> ELSE <<sorted[1]>>

\* getSameDayChallenges: the profile's still-valid entries with the given
\* no_pre_mine, easiest first, then oldest firstSeenAt first
getSameDayChallenges(map, noPreMine, profileId, nowMs) ==
    LET kept == SelectSeq(map, LAMBDA entry :
                    /\ entry.profileId = profileId
                    /\ entry.no_pre_mine = noPreMine
                    /\ entry.expiresAt > nowMs)
    IN  StableSort(kept, [i \in 1..Len(kept) |->
                             <<0 - parseInt16(kept[i].difficulty), kept[i].firstSeenAt>>])

\* logChallenge(challenge, profileId, validityHours)
LogChallenge(challenges, hints) ==
    \E challenge \in challenges, profileId \in Profiles, validityHours \in hints :
        LET L == Initialize(Logger)
            idx == IndexOf(L.history, challenge.challenge_id)
            entry == IF idx # 0
                     THEN UpdatedEntry(L.history[idx], challenge, now)
                     ELSE NewEntry(challenge, profileId, validityHours, now)
        IN  /\ Len(entry.difficultyChanges) <= MaxChanges
            /\ history' = IF idx # 0 THEN [L.history EXCEPT ![idx] = entry]
                                     ELSE Append(L.history, entry)
            /\ historyFile' = <<history'>>
            /\ initialized' = TRUE
            /\ lastCall' = <<[op |-> "logChallenge", challenge |-> challenge,
                              profileId |-> profileId, validityHours |-> validityHours,
                              at |-> now, existed |-> (idx # 0), ret |-> entry]>>
            /\ UNCHANGED <<receiptsFile, errorsFile, now, lastHistory, lastRemove, retryVars, feeVars, toolVars>>

\* getValidChallenges(profileId)
GetValidChallenges ==
    \E profileId \in Profiles :
        LET L == Initialize(Logger)
        IN  /\ history' = L.history
            /\ historyFile' = L.file
            /\ initialized' = TRUE
            /\ lastCall' = <<[op |-> "getValidChallenges", profileId |-> profileId,
                              at |-> now,
                              ret |-> getValidChallenges(L.history, profileId, now)]>>
            /\ UNCHANGED <<receiptsFile, errorsFile, now, lastHistory, lastRemove, retryVars, feeVars, toolVars>>

\* getEasiestValidChallenge(profileId, minTimeRemainingMinutes = 15)
GetEasiestValidChallenge ==
    \E profileId \in Profiles, minutes \in {0, DefaultMinTimeRemainingMinutes} :
        LET L == Initialize(Logger)
        IN  /\ history' = L.history
            /\ historyFile' = L.file
            /\ initialized' = TRUE
            /\ lastCall' = <<[op |-> "getEasiestValidChallenge", profileId |-> profileId,
                              minutes |-> minutes, at |-> now,
                              ret |-> getEasiestValidChallenge(L.history, profileId,
                                                               minutes, now)]>>
            /\ UNCHANGED <<receiptsFile, errorsFile, now, lastHistory, lastRemove, retryVars, feeVars, toolVars>>

\* getSameDayChallenges(noPreMine, profileId)
GetSameDayChallenges ==
    \E noPreMine \in {"day1", "day2"}, profileId \in Profiles :
        LET L == Initialize(Logger)
        IN  /\ history' = L.history
            /\ historyFile' = L.file
            /\ initialized' = TRUE
            /\ lastCall' = <<[op |-> "getSameDayChallenges", noPreMine |-> noPreMine,
                              profileId |-> profileId, at |-> now,
                              ret |-> getSameDayChallenges(L.history, noPreMine,
                                                           profileId, now)]>>
            /\ UNCHANGED <<receiptsFile, errorsFile, now, lastHistory, lastRemove, retryVars, feeVars, toolVars>>

\* resetPath(): the cached path, the Map and the initialized flag are cleared; the
\* file stays (the active profile, hence the path, is the same in this model).
ResetPath ==
    /\ history' = <<>>
    /\ initialized' = FALSE
    /\ lastCall' = <<[op |-> "resetPath", at |-> now]>>
    /\ UNCHANGED <<historyFile, receiptsFile, errorsFile, now, lastHistory, lastRemove, retryVars, feeVars, toolVars>>

LedgerTick ==
    /\ now + LedgerTickMs <= MaxLedgerTicks * LedgerTickMs
    /\ now' = now + LedgerTickMs
    /\ UNCHANGED <<receiptsFile, errorsFile, lastHistory, lastRemove, retryVars, ledgerVars, feeVars, toolVars>>

InitLedger ==
    /\ receiptsFile = <<>>
    /\ errorsFile = <<>>
    /\ now = 0
    /\ lastHistory = <<>>
    /\ lastRemove = <<>>
    /\ InitRetryIdle
    /\ InitLedgerIdle
    /\ InitFeeIdle
    /\ InitToolIdle

NextLedger ==
    \/ LogChallenge(LedgerChallenges, ValidityHints)
    \/ GetValidChallenges
    \/ GetEasiestValidChallenge
    \/ ResetPath
    \/ LedgerTick

SpecLedger == InitLedger /\ [][NextLedger]_vars

NextSelect ==
    \/ LogChallenge(SelectChallenges, {DefaultValidityHours})
    \/ GetValidChallenges
    \/ GetEasiestValidChallenge
    \/ ResetPath
    \/ LedgerTick

SpecSelect == InitLedger /\ [][NextSelect]_vars

NextOrder ==
    \/ LogChallenge(OrderChallenges, {DefaultValidityHours})
    \/ GetEasiestValidChallenge
    \/ GetSameDayChallenges
    \/ LedgerTick

SpecOrder == InitLedger /\ [][NextOrder]_vars

\* SpecValid: the three challenges of SpecOrder and the listing of the valid ones
NextValid ==
    \/ LogChallenge(OrderChallenges, {DefaultValidityHours})
    \/ GetValidChallenges
    \/ LedgerTick

SpecValid == InitLedger /\ [][NextValid]_vars

\* cleanupOldChallenges(daysToKeep): the entries first seen before the cutoff are
\* deleted from the Map; the number deleted is returned
DayMs == 86400000              \* 24 * 60 * 60 * 1000

MutCleanupExpired(map, daysToKeep, nowMs) ==
    LET kept == SelectSeq(map, LAMBDA entry : ~(entry.expiresAt <= nowMs))
    IN  [history |-> kept, removed |-> Len(map) - Len(kept)]
MutCleanupAtCutoff(map, daysToKeep, nowMs) ==
    LET cutoff == nowMs - daysToKeep * DayMs
        kept == SelectSeq(map, LAMBDA entry : ~(entry.firstSeenAt <= cutoff))
    IN  [history |-> kept, removed |-> Len(map) - Len(kept)]
cleanupOldChallenges(map, daysToKeep, nowMs) ==
    LET cutoff == nowMs - daysToKeep * DayMs
        kept == SelectSeq(map, LAMBDA entry : ~(entry.firstSeenAt < cutoff))
    IN  [history |-> kept, removed |-> Len(map) - Len(kept)]

\* SpecSweep: a challenge with a deadline two days ahead and one with a deadline in
\* fifteen minutes, recorded at any time of a clock that runs for a day and a
\* quarter of an hour, and the retention sweep
SweepChallenges ==
    { [challenge_id |-> "D01C01", difficulty |-> <<"f", "f">>, no_pre_mine |-> "day1",
       latest_submission |-> 2 * TickMs],
      [challenge_id |-> "D01C02", difficulty |-> <<"f", "f">>, no_pre_mine |-> "day1",
       latest_submission |-> LedgerTickMs] }

\* daysToKeep of the calls (the products stay within 32 bits)
SweepDays == {1, 7}

CleanupOldChallenges ==
    \E daysToKeep \in SweepDays :
        LET L == Initialize(Logger)
            swept == cleanupOldChallenges(L.history, daysToKeep, now)
        IN  /\ history' = swept.history
            /\ historyFile' = IF swept.removed > 0 THEN <<swept.history>> ELSE L.file
            /\ initialized' = TRUE
            /\ lastCall' = <<[op |-> "cleanupOldChallenges", daysToKeep |-> daysToKeep,
                              at |-> now, ret |-> swept.removed]>>
            /\ UNCHANGED <<receiptsFile, errorsFile, now, lastHistory, lastRemove, retryVars, feeVars, toolVars>>

\* The clock advances by a day at most MaxTicks times, and within a day by fifteen
\* minutes at most MaxLedgerTicks times
SweepTick ==
    /\ \/ /\ now \div TickMs < MaxTicks
          /\ now' = now + TickMs
       \/ /\ (now % TickMs) + LedgerTickMs <= MaxLedgerTicks * LedgerTickMs
          /\ now' = now + LedgerTickMs
    /\ UNCHANGED <<receiptsFile, errorsFile, lastHistory, lastRemove, retryVars, ledgerVars, feeVars, toolVars>>

NextSweep ==
    \/ LogChallenge(SweepChallenges, {DefaultValidityHours})
    \/ CleanupOldChallenges
    \/ SweepTick

SpecSweep == InitLedger /\ [][NextSweep]_vars

\* seedFromApi: the loop over the entries of the response. An entry whose
\* challenge_id the Map holds, or whose expiresAt is not after now, is skipped; the
\* others are set in the Map with the local profileId.
RECURSIVE SeedFrom(_, _, _, _, _)
SeedFrom(challenges, i, map, profileId, nowMs) ==
    IF i > Len(challenges) THEN map
    ELSE LET challenge == challenges[i]
         IN  IF IndexOf(map, challenge.challenge_id) # 0
             THEN SeedFrom(challenges, i + 1, map, profileId, nowMs)
             ELSE IF challenge.expiresAt <= nowMs
             THEN SeedFrom(challenges, i + 1, map, profileId, nowMs)
             ELSE SeedFrom(challenges, i + 1,
                           Append(map, [challenge EXCEPT !.profileId = profileId]),
                           profileId, nowMs)

\* seedFromApi(apiUrl, profileId) given the response: <<>> for a failed request or
\* a body that holds no array, else <<challenges>>
MutSeedFromApiFailureClears(map, response, profileId, nowMs) ==
    IF response = <<>> THEN [history |-> <<>>, imported |-> 0]
    ELSE LET seeded == SeedFrom(response[1], 1, map, profileId, nowMs)
         IN  [history |-> seeded, imported |-> Len(seeded) - Len(map)]
seedFromApi(map, response, profileId, nowMs) ==
    IF response = <<>> THEN [history |-> map, imported |-> 0]
    ELSE LET seeded == SeedFrom(response[1], 1, map, profileId, nowMs)
         IN  [history |-> seeded, imported |-> Len(seeded) - Len(map)]

\* SpecSeed: one challenge recorded locally and responses of up to MaxSeeded
\* entries of another miner, whose expiresAt and latest_submission may differ
MaxSeeded == 2

SeedChallenges ==
    { c \in Challenges : c.challenge_id = "D01C01" /\ c.difficulty = <<"f", "f">> }

RemoteEntry(challengeId, expiresAt, latestSubmission) ==
    [challenge_id |-> challengeId, difficulty |-> <<"f", "f">>, no_pre_mine |-> "day1",
     latest_submission |-> latestSubmission,
     firstSeenAt |-> 0, lastSeenAt |-> 0, profileId |-> "remote",
     validityHours |-> DefaultValidityHours,
     expiresAt |-> expiresAt,
     difficultyChanges |-> <<>>]

\* The other miner's entries: the challenge recorded locally; another challenge
\* with both deadlines late; the same with an authority deadline (latest_submission)
\* that has passed and a later expiresAt; the same with both deadlines early
RemoteEntries ==
    { RemoteEntry("D01C01", 2 * LedgerTickMs, 2 * LedgerTickMs),
      RemoteEntry("D01C02", 2 * LedgerTickMs, 2 * LedgerTickMs),
      RemoteEntry("D01C02", 2 * LedgerTickMs, 0),
      RemoteEntry("D01C02", LedgerTickMs, LedgerTickMs) }

SeedResponses == {<<>>} \cup { <<challenges>> : challenges \in SeqsUpTo(RemoteEntries, MaxSeeded) }

\* seedFromApi(apiUrl, profileId): initialize(), the request, the loop, save() when
\* something was imported. Nothing of the ledger is read between initialize() and
\* the loop.
SeedFromApiOf(responses) ==
    \E profileId \in Profiles, response \in responses :
        LET L == Initialize(Logger)
            seeded == seedFromApi(L.history, response, profileId, now)
        IN  /\ history' = seeded.history
            /\ historyFile' = IF seeded.imported > 0 THEN <<seeded.history>> ELSE L.file
            /\ initialized' = TRUE
            /\ lastCall' = <<[op |-> "seedFromApi", profileId |-> profileId,
                              response |-> response, at |-> now,
                              ret |-> seeded.imported]>>
            /\ UNCHANGED <<receiptsFile, errorsFile, now, lastHistory, lastRemove, retryVars, feeVars, toolVars>>

NextSeed ==
    \/ LogChallenge(SeedChallenges, {DefaultValidityHours})
    \/ SeedFromApiOf(SeedResponses)
    \/ LedgerTick

SpecSeed == InitLedger /\ [][NextSeed]_vars


\* SpecSeedRestart: one challenge recorded locally with one deadline, responses of
\* one entry or none, and resetPath(), after which the next call loads the history
\* file again. The other miner's entries are alive by both deadlines; one is of a
\* miner whose expiresAt is not the authority's deadline (the entries the
\* migration of initialize() is for).
RestartChallenges == { c \in SeedChallenges : c.latest_submission = 2 * LedgerTickMs }

RestartResponses ==
    { <<>>,
      <<(<<RemoteEntry("D01C01", 2 * LedgerTickMs, 2 * LedgerTickMs)>>)>>,
      <<(<<RemoteEntry("D01C02", 2 * LedgerTickMs, 2 * LedgerTickMs)>>)>>,
      <<(<<RemoteEntry("D01C03", 3 * LedgerTickMs, 2 * LedgerTickMs)>>)>> }

NextSeedRestart ==
    \/ LogChallenge(RestartChallenges, {DefaultValidityHours})
    \/ SeedFromApiOf(RestartResponses)
    \/ ResetPath
    \/ LedgerTick

SpecSeedRestart == InitLedger /\ [][NextSeedRestart]_vars

\* SpecPeers: two ChallengeHistoryLogger instances (the singleton of two
\* processes, or of two bundles of the server) on the same challenge-history.json.
\* Each keeps its own Map and writes the whole of it in save(); neither locks
\* the file or reads it again after initialize().
PeerLogger ==
    [history |-> peer[1].history, file |-> historyFile, initialized |-> peer[1].initialized]

PeerChallenges ==
    { c \in Challenges : /\ c.challenge_id \in {"D01C01", "D01C02"}
                         /\ c.difficulty = <<"f", "f">>
                         /\ c.latest_submission = 2 * LedgerTickMs }

\* logChallenge of the second instance
PeerLogChallenge(challenges, hints) ==
    \E challenge \in challenges, profileId \in Profiles, validityHours \in hints :
        LET L == Initialize(PeerLogger)
            idx == IndexOf(L.history, challenge.challenge_id)
            entry == IF idx # 0
                     THEN UpdatedEntry(L.history[idx], challenge, now)
                     ELSE NewEntry(challenge, profileId, validityHours, now)
            held == IF idx # 0 THEN [L.history EXCEPT ![idx] = entry]
                    ELSE Append(L.history, entry)
        IN  /\ Len(entry.difficultyChanges) <= MaxChanges
            /\ peer' = <<[history |-> held, initialized |-> TRUE]>>
            /\ historyFile' = <<held>>
            /\ UNCHANGED <<subVars, now, retryVars, history, initialized, lastCall, feeVars,
                           lastNonce, lastStats, configFile, lastConfig, profileVars>>

\* Any other call of the second instance: initialize() loads the file
PeerInitialize ==
    /\ ~peer[1].initialized
    /\ LET L == Initialize(PeerLogger)
       IN  /\ peer' = <<[history |-> L.history, initialized |-> TRUE]>>
           /\ historyFile' = L.file
    /\ UNCHANGED <<subVars, now, retryVars, history, initialized, lastCall, feeVars,
                   lastNonce, lastStats, configFile, lastConfig, profileVars>>

InitPeers ==
    /\ receiptsFile = <<>>
    /\ errorsFile = <<>>
    /\ now = 0
    /\ lastHistory = <<>>
    /\ lastRemove = <<>>
    /\ InitRetryIdle
    /\ InitLedgerIdle
    /\ InitFeeIdle
    /\ lastNonce = <<>>
    /\ lastStats = <<>>
    /\ configFile = <<>>
    /\ lastConfig = <<>>
    /\ peer = <<[history |-> <<>>, initialized |-> FALSE]>>
    /\ InitProfileIdle

NextPeers ==
    \/ LogChallenge(PeerChallenges, {DefaultValidityHours})
    \/ PeerLogChallenge(PeerChallenges, {DefaultValidityHours})
    \/ PeerInitialize
    \/ LedgerTick

SpecPeers == InitPeers /\ [][NextPeers]_vars
---------------------------------------------------------------------------
(* DevFeeManager *)

PoolSize == 10
MaxFeeSolutions == 11    \* recordDevFeeSolution calls per manager (SpecRotate)
MaxPoolSolutions == 2    \* recordDevFeeSolution calls per manager (SpecPool)

isEnabled(config) == config.enabled

\* The devAddress of the n-th allocation the service grants (it hands its addresses
\* out in order), and one that fails the format check; an address is <<prefix, rest>>.
ApiAddress(i) == <<IF i % 2 = 0 THEN "addr1" ELSE "tnight1", i>>
BadAddress(i) == <<"stake1", i>>
StartsWith(address, prefix) == address[1] = prefix
ValidFormat(address) == StartsWith(address, "tnight1") \/ StartsWith(address, "addr1")

DevFeeAddress(address, addressIndex, nowMs) ==
    [address |-> address, addressIndex |-> addressIndex, fetchedAt |-> nowMs,
     usedCount |-> 0]

Outcomes == {"ok", "invalid", "error"}

hasValidAddressPool(cache) == Len(cache.addressPool) = PoolSize

\* The end of prefetchAddressPool: all or nothing
MutPrefetchKeepsPartial(cache, addresses, nowMs) ==
    [cache EXCEPT !.addressPool = addresses, !.poolFetchedAt = <<nowMs>>,
                  !.lastFetchError = <<>>]
PrefetchStored(cache, addresses, nowMs) ==
    IF Len(addresses) < PoolSize
    THEN [cache EXCEPT !.addressPool = <<>>, !.poolFetchedAt = <<>>,
                       !.lastFetchError = <<[onlyFetched |-> Len(addresses)]>>]
    ELSE [cache EXCEPT !.addressPool = addresses, !.poolFetchedAt = <<nowMs>>,
                       !.lastFetchError = <<>>]

\* One iteration of the prefetch loop, given the outcome of its request
PrefetchIteration(addresses, i, outcome, nowMs) ==
    LET granted == Len(addresses)
        devAddress == IF outcome = "invalid" THEN BadAddress(i) ELSE ApiAddress(granted)
    IN  IF outcome # "error" /\ ValidFormat(devAddress)
        THEN Append(addresses, DevFeeAddress(devAddress, granted, nowMs))
        ELSE addresses

\* getDevFeeAddress(): [ok, ret] or [ok = FALSE, error]
MutGetFirstSlot(cache) ==
    IF ~hasValidAddressPool(cache)
    THEN [ok |-> FALSE, error |-> "No valid address pool available"]
    ELSE [ok |-> TRUE, ret |-> cache.addressPool[1].address]
getDevFeeAddress(cache) ==
    IF ~hasValidAddressPool(cache)
    THEN [ok |-> FALSE, error |-> "No valid address pool available"]
    ELSE LET poolIndex == cache.totalDevFeeSolutions % 10
         IN  [ok |-> TRUE, ret |-> cache.addressPool[poolIndex + 1].address]

\* recordDevFeeSolution(): the cache it leaves
recordDevFeeSolution(cache) ==
    LET counted == [cache EXCEPT !.totalDevFeeSolutions = @ + 1]
    IN  IF counted.currentAddress # <<>>
        THEN [counted EXCEPT !.currentAddress[1].usedCount = @ + 1]
        ELSE counted

\* A new process constructs the manager; a prefetch in flight dies with the old one
Construct ==
    \E enabled \in BOOLEAN, generated \in ClientIds :
        LET made == Constructed(feeFile, enabled, generated)
        IN  /\ feeConfig' = made.config
            /\ feeCache' = made.cache
            /\ feeFile' = made.file
            /\ prefetch' = <<>>
            /\ lastFee' = <<[op |-> "construct", before |-> feeFile]>>
            /\ UNCHANGED <<subVars, now, retryVars, ledgerVars, toolVars>>

\* fetchDevFeeAddress()
FetchDevFeeAddress(outcomes) ==
    /\ \E outcome \in outcomes :
        LET devAddress == IF outcome = "invalid" THEN BadAddress(0) ELSE ApiAddress(0)
            fetched == outcome # "error" /\ ValidFormat(devAddress)
            cache == IF fetched
                     THEN [feeCache EXCEPT
                              !.currentAddress = <<DevFeeAddress(devAddress, 0, now)>>,
                              !.lastFetchError = <<>>]
                     ELSE [feeCache EXCEPT !.lastFetchError = <<outcome>>]
        IN  IF ~isEnabled(feeConfig)
            THEN /\ lastFee' = <<[op |-> "fetchDevFeeAddress", ok |-> FALSE]>>
                 /\ UNCHANGED <<feeConfig, feeCache, feeFile, prefetch>>
            ELSE /\ feeCache' = cache
                 /\ feeFile' = <<cache>>
                 /\ lastFee' = <<[op |-> "fetchDevFeeAddress",
                                  ok |-> cache.currentAddress # <<>>]>>
                 /\ UNCHANGED <<feeConfig, prefetch>>
    /\ UNCHANGED <<subVars, now, retryVars, ledgerVars, toolVars>>

\* prefetchAddressPool() up to its first request
PrefetchStart ==
    /\ prefetch = <<>>
    /\ IF ~isEnabled(feeConfig)
       THEN /\ lastFee' = <<[op |-> "prefetchAddressPool", ret |-> FALSE,
                             attempted |-> FALSE]>>
            /\ UNCHANGED prefetch
       ELSE /\ prefetch' = <<[i |-> 0, addresses |-> <<>>]>>
            /\ UNCHANGED lastFee
    /\ UNCHANGED <<feeConfig, feeCache, feeFile>>
    /\ UNCHANGED <<subVars, now, retryVars, ledgerVars, toolVars>>

\* The answer to request i: the iteration ends, and either the next request is
\* sent (after the pacing delay when the address was taken) or, after the last
\* one, the pool is stored or discarded and the cache saved.
PrefetchResponse(outcomes) ==
    /\ prefetch # <<>>
    /\ \E outcome \in outcomes :
          LET i == prefetch[1].i
              addresses == PrefetchIteration(prefetch[1].addresses, i, outcome, now)
              cache == PrefetchStored(feeCache, addresses, now)
          IN  IF i + 1 < PoolSize
              THEN /\ prefetch' = <<[i |-> i + 1, addresses |-> addresses]>>
                   /\ UNCHANGED <<feeCache, feeFile, lastFee>>
              ELSE /\ prefetch' = <<>>
                   /\ feeCache' = cache
                   /\ feeFile' = <<cache>>
                   /\ lastFee' = <<[op |-> "prefetchAddressPool",
                                    ret |-> (Len(addresses) = PoolSize),
                                    attempted |-> TRUE,
                                    fetched |-> Len(addresses),
                                    hadPool |-> hasValidAddressPool(feeCache)]>>
    /\ UNCHANGED feeConfig
    /\ UNCHANGED <<subVars, now, retryVars, ledgerVars, toolVars>>

\* getDevFeeAddress()
GetDevFeeAddress ==
    /\ lastFee' = <<[op |-> "getDevFeeAddress", result |-> getDevFeeAddress(feeCache)]>>
    /\ UNCHANGED <<feeConfig, feeCache, feeFile, prefetch>>
    /\ UNCHANGED <<subVars, now, retryVars, ledgerVars, toolVars>>

\* recordDevFeeSolution()
RecordDevFeeSolution(max) ==
    /\ feeCache.totalDevFeeSolutions < max
    /\ feeCache' = recordDevFeeSolution(feeCache)
    /\ feeFile' = <<feeCache'>>
    /\ lastFee' = <<[op |-> "recordDevFeeSolution"]>>
    /\ UNCHANGED <<feeConfig, prefetch>>
    /\ UNCHANGED <<subVars, now, retryVars, ledgerVars, toolVars>>

InitFee ==
    /\ receiptsFile = <<>>
    /\ errorsFile = <<>>
    /\ now = 0
    /\ lastHistory = <<>>
    /\ lastRemove = <<>>
    /\ InitRetryIdle
    /\ history = <<>>
    /\ historyFile = <<>>
    /\ initialized = FALSE
    /\ lastCall = <<>>
    /\ \E enabled \in BOOLEAN, generated \in ClientIds :
          /\ feeConfig = Constructed(<<>>, enabled, generated).config
          /\ feeCache = Constructed(<<>>, enabled, generated).cache
          /\ feeFile = Constructed(<<>>, enabled, generated).file
    /\ prefetch = <<>>
    /\ lastFee = <<>>
    /\ InitToolIdle

\* SpecPool: construction, prefetches with every outcome, a few fee solutions
NextPool ==
    \/ Construct
    \/ PrefetchStart
    \/ PrefetchResponse(Outcomes)
    \/ GetDevFeeAddress
    \/ RecordDevFeeSolution(MaxPoolSolutions)

SpecPool == InitFee /\ [][NextPool]_vars

\* SpecRotate: prefetches that succeed, and fee solutions past one round of the pool
NextRotate ==
    \/ FetchDevFeeAddress(Outcomes)
    \/ PrefetchStart
    \/ PrefetchResponse({"ok"})
    \/ GetDevFeeAddress
    \/ RecordDevFeeSolution(MaxFeeSolutions)

SpecRotate == InitFee /\ [][NextRotate]_vars

---------------------------------------------------------------------------
(* generateNonce *)

MaxNonces == 2       \* generateNonce calls that are remembered (SpecNonce)

\* workerId & 0xFF for an integer workerId (two's complement for a negative one)
AndFF(workerId) == workerId % 256

\* Number.prototype.toString(16) of a byte: one or two lowercase digits
ToString16(b) ==
    IF b < 16 THEN <<HexDigits[b + 1]>>
    ELSE <<HexDigits[(b \div 16) + 1], HexDigits[(b % 16) + 1]>>

\* String.prototype.padStart(2, '0')
PadStart2(str) == IF Len(str) < 2 THEN <<"0">> \o str ELSE str

\* Array.from(bytes).map(...).join('')
RECURSIVE JoinHex(_, _)
JoinHex(bytes, i) ==
    IF i > Len(bytes) THEN <<>>
    ELSE PadStart2(ToString16(bytes[i])) \o JoinHex(bytes, i + 1)

\* generateNonce(workerId), draws being the seven values of
\* Math.floor(Math.random() * 256): the nonce, or the Error of the length guard
MutNonceNoPad(workerId, draws) ==
    LET bytes == <<AndFF(workerId)>> \o draws
        nonce == ToString16(bytes[1]) \o JoinHex(bytes, 2)
    IN  [threw |-> FALSE, nonce |-> nonce]
MutNonceWorkerLast(workerId, draws) ==
    LET bytes == draws \o <<AndFF(workerId)>>
        nonce == JoinHex(bytes, 1)
    IN  IF Len(nonce) # 16 THEN [threw |-> TRUE, nonce |-> <<>>]
        ELSE [threw |-> FALSE, nonce |-> nonce]
generateNonce(workerId, draws) ==
    LET bytes == <<AndFF(workerId)>> \o draws
        nonce == JoinHex(bytes, 1)
    IN  IF Len(nonce) # 16 THEN [threw |-> TRUE, nonce |-> <<>>]
        ELSE [threw |-> FALSE, nonce |-> nonce]

\* SpecNonce: workers of the range 0..255 and workers outside it, with a few
\* draws of the seven random bytes
NonceWorkerIds == {0, 1, 15, 16, 255, 256, 257, 0 - 1}

NonceDraws ==
    { <<0, 0, 0, 0, 0, 0, 0>>,
      <<255, 255, 255, 255, 255, 255, 255>>,
      <<1, 35, 69, 103, 137, 171, 205>>,
      <<16, 0, 0, 0, 0, 0, 15>> }

\* The last MaxNonces calls are remembered, the latest last
GenerateNonce ==
    /\ \E workerId \in NonceWorkerIds, draws \in NonceDraws :
          LET call == [workerId |-> workerId, draws |-> draws,
                       ret |-> generateNonce(workerId, draws)]
          IN  lastNonce' = IF Len(lastNonce) < MaxNonces
                           THEN Append(lastNonce, call)
                           ELSE Append(Tail(lastNonce), call)
    /\ UNCHANGED <<subVars, now, retryVars, ledgerVars, feeVars,
                   lastStats, configFile, lastConfig, peer, profileVars>>

NextNonce == GenerateNonce

SpecNonce == InitReconcile /\ [][NextNonce]_vars

---------------------------------------------------------------------------
(* computeStats *)

MaxStatsReceipts == 3    \* receipts given to one computeStats call (SpecStats)

\* new Date(MINING_START_DATE + 'T00:00:00Z').getTime(). The timestamps of the
\* statistics are counted from the midnight before the mining start, so that a
\* submission of the day before the start has the timestamp 0.
MiningStart == DayMs

\* A challenge_id `**D{day}C{challenge}`, as a sequence of characters
ChallengeIdOf(day, challenge) == <<"*", "*", "D">> \o day \o <<"C">> \o challenge

IsDecDigit(c) == \E v \in 1..10 : HexDigits[v] = c

\* parseInt(digits, 10) of the digits from position i on
RECURSIVE ParseDecFrom(_, _, _)
ParseDecFrom(str, i, acc) ==
    IF i > Len(str) \/ ~IsDecDigit(str[i]) THEN acc
    ELSE ParseDecFrom(str, i + 1, acc * 10 + HexValue(str[i]))

\* dayFromChallengeId: the number between `**D` and `C` (every challenge_id of the
\* model has the format, so the Error of a mismatch is not raised)
dayFromChallengeId(challengeId) == ParseDecFrom(challengeId, 4, 0)

\* dayFromSubmissionDate(ts): Math.floor((ts - miningStart) / 1 day) + 1
dayFromSubmissionDate(ts) == ((ts - MiningStart) \div DayMs) + 1

\* const submissionDay = dayFromSubmissionDate(receipt.ts)
MutSubmissionDayOfChallenge(receipt) == dayFromChallengeId(receipt.challenge_id)
SubmissionDay(receipt) == dayFromSubmissionDate(receipt.ts)

\* dfoPerReceipt: rates[rateIndex] when the index exists, else 0
MutRateOfDayIndex(submissionDay, rates) ==
    LET rateIndex == submissionDay
    IN  IF rateIndex >= 0 /\ rateIndex < Len(rates) THEN rates[rateIndex + 1] ELSE 0
MutRateOfLastKnown(submissionDay, rates) ==
    LET rateIndex == submissionDay - 1
    IN  IF rateIndex >= 0 /\ rateIndex < Len(rates) THEN rates[rateIndex + 1]
        ELSE IF rateIndex >= 0 /\ Len(rates) > 0 THEN rates[Len(rates)] ELSE 0
RateOf(submissionDay, rates) ==
    LET rateIndex == submissionDay - 1
    IN  IF rateIndex >= 0 /\ rateIndex < Len(rates) THEN rates[rateIndex + 1] ELSE 0

\* array.reduce((sum, x) => sum + x, 0), and the += accumulations
RECURSIVE SumFrom(_, _, _)
SumFrom(seq, i, sum) ==
    IF i > Len(seq) THEN sum ELSE SumFrom(seq, i + 1, sum + seq[i])

SumSeq(seq) == SumFrom(seq, 1, 0)

\* dayMap.set(submissionDay, {count + 1, dfo + dfoPerReceipt}): a Map from day to
\* {count, dfo}, in insertion order
DayMapSet(dayMap, submissionDay, dfoPerReceipt) ==
    IF \E i \in 1..Len(dayMap) : dayMap[i].day = submissionDay
    THEN LET i == CHOOSE i \in 1..Len(dayMap) : dayMap[i].day = submissionDay
         IN  [dayMap EXCEPT ![i] = [day |-> submissionDay, count |-> @.count + 1,
                                    dfo |-> @.dfo + dfoPerReceipt]]
    ELSE Append(dayMap, [day |-> submissionDay, count |-> 1, dfo |-> dfoPerReceipt])

\* The body of the first loop over the receipts: addressDayMap, a Map from address
\* to dayMap, in insertion order
AddressDayMapStep(map, receipt, rates) ==
    LET submissionDay == SubmissionDay(receipt)
        dfoPerReceipt == RateOf(submissionDay, rates)
        withAddress == IF \E i \in 1..Len(map) : map[i].address = receipt.address
                       THEN map
                       ELSE Append(map, [address |-> receipt.address, dayMap |-> <<>>])
        i == CHOOSE i \in 1..Len(withAddress) : withAddress[i].address = receipt.address
    IN  [withAddress EXCEPT ![i].dayMap = DayMapSet(@, submissionDay, dfoPerReceipt)]

RECURSIVE AddressDayMapFrom(_, _, _, _)
AddressDayMapFrom(receipts, i, map, rates) ==
    IF i > Len(receipts) THEN map
    ELSE AddressDayMapFrom(receipts, i + 1,
                           AddressDayMapStep(map, receipts[i], rates), rates)

\* days.sort((a, b) => b.day - a.day)
SortByDayDesc(days) ==
    StableSort(days, [i \in 1..Len(days) |-> <<0 - days[i].day, 0>>])

\* One element of byAddress (the date strings and first/lastSolution are derived
\* from the same values and left out)
AddressStats(entry) ==
    LET days == [i \in 1..Len(entry.dayMap) |->
                    [day |-> entry.dayMap[i].day, receipts |-> entry.dayMap[i].count,
                     dfo |-> entry.dayMap[i].dfo]]
    IN  [address |-> entry.address,
         days |-> SortByDayDesc(days),
         totalReceipts |-> SumSeq([i \in 1..Len(days) |-> days[i].receipts]),
         totalDfo |-> SumSeq([i \in 1..Len(days) |-> days[i].dfo])]

\* The body of the second loop over the receipts: globalDayMap
GlobalDayMapStep(map, receipt, rates) ==
    LET submissionDay == SubmissionDay(receipt)
        dfoPerReceipt == RateOf(submissionDay, rates)
        withDay == IF \E i \in 1..Len(map) : map[i].day = submissionDay
                   THEN map
                   ELSE Append(map, [day |-> submissionDay, addresses |-> {},
                                     receipts |-> 0, dfo |-> 0])
        i == CHOOSE i \in 1..Len(withDay) : withDay[i].day = submissionDay
    IN  [withDay EXCEPT ![i] = [day |-> submissionDay,
                                addresses |-> @.addresses \cup {receipt.address},
                                receipts |-> @.receipts + 1,
                                dfo |-> @.dfo + dfoPerReceipt]]

RECURSIVE GlobalDayMapFrom(_, _, _, _)
GlobalDayMapFrom(receipts, i, map, rates) ==
    IF i > Len(receipts) THEN map
    ELSE GlobalDayMapFrom(receipts, i + 1,
                          GlobalDayMapStep(map, receipts[i], rates), rates)

\* computeStats(receipts, rates)
computeStats(receipts, rates) ==
    IF Len(receipts) = 0
    THEN [totalReceipts |-> 0, totalAddresses |-> 0, days |-> <<>>, byAddress |-> <<>>,
          grandTotal |-> [receipts |-> 0, dfo |-> 0]]
    ELSE LET addressDayMap == AddressDayMapFrom(receipts, 1, <<>>, rates)
             unsorted == [i \in 1..Len(addressDayMap) |-> AddressStats(addressDayMap[i])]
             byAddress == StableSort(unsorted,
                              [i \in 1..Len(unsorted) |->
                                  <<0 - unsorted[i].totalReceipts, 0>>])
             globalDayMap == GlobalDayMapFrom(receipts, 1, <<>>, rates)
             days == [i \in 1..Len(globalDayMap) |->
                         [day |-> globalDayMap[i].day,
                          receipts |-> globalDayMap[i].receipts,
                          addresses |-> Cardinality(globalDayMap[i].addresses),
                          dfo |-> globalDayMap[i].dfo]]
         IN  [totalReceipts |-> Len(receipts),
              totalAddresses |-> Len(addressDayMap),
              days |-> SortByDayDesc(days),
              byAddress |-> byAddress,
              grandTotal |->
                  [receipts |-> Len(receipts),
                   dfo |-> SumSeq([i \in 1..Len(byAddress) |-> byAddress[i].totalDfo])]]

\* SpecStats: receipts of two addresses submitted the day before the mining start,
\* at the first and the last millisecond of day 1, on day 2 and on day 4, for
\* challenges whose id names another day; rates for no, one, two or three days
StatsReceipt(address, ts, challengeId) ==
    [ts |-> ts, address |-> address, addressIndex |-> AddressIndexOf(address),
     challenge_id |-> challengeId, nonce |-> "n1"]

StatsReceipts ==
    { StatsReceipt("addr1", MiningStart, ChallengeIdOf(<<"0", "1">>, <<"1", "0">>)),
      StatsReceipt("addr1", MiningStart + DayMs - 1, ChallengeIdOf(<<"0", "3">>, <<"0", "1">>)),
      StatsReceipt("addr1", MiningStart + DayMs, ChallengeIdOf(<<"0", "1">>, <<"1", "0">>)),
      StatsReceipt("addr2", MiningStart + DayMs, ChallengeIdOf(<<"1", "2">>, <<"0", "1">>)),
      StatsReceipt("addr2", 0, ChallengeIdOf(<<"0", "1">>, <<"1", "0">>)),
      StatsReceipt("addr2", MiningStart + 3 * DayMs, ChallengeIdOf(<<"0", "2">>, <<"0", "1">>)) }

StatsRates == { <<>>, <<5>>, <<5, 7>>, <<5, 7, 11>> }

\* One call per behaviour: the function keeps nothing between calls
ComputeStats ==
    /\ lastStats = <<>>
    /\ \E receipts \in SeqsUpTo(StatsReceipts, MaxStatsReceipts), rates \in StatsRates :
          lastStats' = <<[receipts |-> receipts, rates |-> rates,
                          ret |-> computeStats(receipts, rates)]>>
    /\ UNCHANGED <<subVars, now, retryVars, ledgerVars, feeVars,
                   lastNonce, configFile, lastConfig, peer, profileVars>>

NextStats == ComputeStats

SpecStats == InitReconcile /\ [][NextStats]_vars

---------------------------------------------------------------------------
(* ConfigManager *)

\* ConfigManager.defaultConfig (batchSize: <<>> for null, else <<number>>)
defaultConfig ==
    [workerThreads |-> 11, batchSize |-> <<>>, workerGroupingMode |-> "auto",
     workersPerAddress |-> 5]

\* loadConfig(): the parsed mining-config.json, the defaults when there is none
loadConfig(file) == IF file # <<>> THEN file[1] ELSE defaultConfig

\* saveConfig(config): writeFileSync inside try/catch; a write that throws is
\* logged and the file stays as it was
saveConfig(file, config, written) == IF written THEN <<config>> ELSE file

\* { ...currentConfig, ...updates }
Spread(currentConfig, updates) ==
    [field \in DOMAIN currentConfig |->
        IF field \in DOMAIN updates THEN updates[field] ELSE currentConfig[field]]

\* updateConfig(updates), given whether the write succeeds
updateConfig(file, updates, written) ==
    LET currentConfig == loadConfig(file)
        updatedConfig == Spread(currentConfig, updates)
    IN  [file |-> saveConfig(file, updatedConfig, written), ret |-> updatedConfig]

\* SpecConfig: partial updates of every field, writes that succeed or throw, and
\* loadConfig calls
ConfigUpdates ==
    { [workerThreads |-> 4],
      [batchSize |-> <<100>>],
      [workerGroupingMode |-> "grouped", workersPerAddress |-> 2],
      [workerThreads |-> 11, batchSize |-> <<>>] }

UpdateConfig ==
    /\ \E updates \in ConfigUpdates, written \in BOOLEAN :
          LET call == updateConfig(configFile, updates, written)
          IN  /\ configFile' = call.file
              /\ lastConfig' = <<[updates |-> updates, written |-> written,
                                  persisted |-> loadConfig(configFile),
                                  ret |-> call.ret, loaded |-> <<>>]>>
    /\ UNCHANGED <<subVars, now, retryVars, ledgerVars, feeVars,
                   lastNonce, lastStats, peer, profileVars>>

\* loadConfig() after an updateConfig: what it returns is kept next to the update
LoadConfig ==
    /\ lastConfig # <<>>
    /\ lastConfig' = <<[lastConfig[1] EXCEPT !.loaded = <<loadConfig(configFile)>>]>>
    /\ UNCHANGED <<subVars, now, retryVars, ledgerVars, feeVars,
                   lastNonce, lastStats, configFile, peer, profileVars>>

NextConfig == UpdateConfig \/ LoadConfig

SpecConfig == InitReconcile /\ [][NextConfig]_vars

---------------------------------------------------------------------------
(* ProfileManager *)

\* Profiles are kept by the two fields the manager looks at, id and name; the
\* name tells the bundled profile of an id from the one saved by the user
ProfileIds == {"midnight", "defensio"}

UnknownProfileId == "unknown"

BundledProfile(id) == [id |-> id, name |-> "bundled"]

RemoteProfile(id) == [id |-> id, name |-> "remote"]

\* validateProfile(profile): the required fields are non-empty strings
validateProfile(profile) == profile.id # "" /\ profile.name # ""

\* Map.has(id) on a Map kept in insertion order
MapHas(map, id) == \E i \in 1..Len(map) : map[i].id = id

\* Map.get(id): <<>> for undefined, else <<profile>>
MapGet(map, id) ==
    IF MapHas(map, id)
    THEN <<map[CHOOSE i \in 1..Len(map) : map[i].id = id]>>
    ELSE <<>>

\* Map.set(profile.id, profile): the value in place when the key is present, a
\* new last entry when it is not
MapSet(map, profile) ==
    IF MapHas(map, profile.id)
    THEN [i \in 1..Len(map) |-> IF map[i].id = profile.id THEN profile ELSE map[i]]
    ELSE Append(map, profile)

RECURSIVE MapSetAll(_, _)
MapSetAll(map, profiles) ==
    IF profiles = <<>> THEN map
    ELSE MapSetAll(MapSet(map, Head(profiles)), Tail(profiles))

\* getProfileById(id): builtInProfiles.get(id) || customProfiles.get(id) || null
getProfileById(builtIn, custom, id) ==
    IF MapGet(builtIn, id) # <<>> THEN MapGet(builtIn, id) ELSE MapGet(custom, id)

\* getAllProfiles(): the built-in profiles set into a Map, then the custom ones
getAllProfiles(builtIn, custom) == MapSetAll(MapSetAll(<<>>, builtIn), custom)

\* getActiveProfile()
getActiveProfile(active) == active

\* saveActiveProfile(): { profileId: activeProfile?.id || null } written inside
\* try/catch; the file stays as it was when the write throws
saveActiveProfile(file, active, written) ==
    IF written
    THEN <<[profileId |-> IF active = <<>> THEN <<>> ELSE <<active[1].id>>]>>
    ELSE file

\* loadActiveProfile(): the profile named by active-profile.json, when there is one
loadActiveProfile(builtIn, custom, file) ==
    IF file # <<>> /\ file[1].profileId # <<>>
    THEN getProfileById(builtIn, custom, file[1].profileId[1])
    ELSE <<>>

\* setActiveProfile(profileId)
SetActiveProfile ==
    /\ \E profileId \in ProfileIds \cup {UnknownProfileId}, written \in BOOLEAN :
          LET profile == getProfileById(builtInProfiles, customProfiles, profileId)
          IN  IF profile = <<>>
              THEN /\ lastProfile' = <<[op |-> "setActiveProfile", id |-> profileId,
                                        ret |-> FALSE, before |-> activeProfile]>>
                   /\ UNCHANGED <<activeProfile, activeProfileFile>>
              ELSE /\ activeProfile' = profile
                   /\ activeProfileFile' =
                          saveActiveProfile(activeProfileFile, profile, written)
                   /\ lastProfile' = <<[op |-> "setActiveProfile", id |-> profileId,
                                        ret |-> TRUE, before |-> activeProfile]>>
    /\ UNCHANGED <<subVars, now, retryVars, ledgerVars, feeVars, lastNonce, lastStats,
                   configFile, lastConfig, peer, builtInProfiles, customProfiles>>

\* clearActiveProfile()
ClearActiveProfile ==
    /\ \E written \in BOOLEAN :
          /\ activeProfile' = <<>>
          /\ activeProfileFile' = saveActiveProfile(activeProfileFile, <<>>, written)
    /\ lastProfile' = <<[op |-> "clearActiveProfile", id |-> "", ret |-> TRUE,
                         before |-> activeProfile]>>
    /\ UNCHANGED <<subVars, now, retryVars, ledgerVars, feeVars, lastNonce, lastStats,
                   configFile, lastConfig, peer, builtInProfiles, customProfiles>>

\* saveRemoteProfile(profile): false for an invalid profile and for a write that
\* throws, else the profile is set in customProfiles
SaveRemoteProfile ==
    /\ \E id \in ProfileIds, name \in {"remote", ""}, written \in BOOLEAN :
          LET profile == [id |-> id, name |-> name]
              saved == validateProfile(profile) /\ written
          IN  /\ customProfiles' =
                     IF saved THEN MapSet(customProfiles, profile) ELSE customProfiles
              /\ lastProfile' = <<[op |-> "saveRemoteProfile", id |-> id,
                                   ret |-> saved, before |-> activeProfile]>>
    /\ UNCHANGED <<subVars, now, retryVars, ledgerVars, feeVars, lastNonce, lastStats,
                   configFile, lastConfig, peer, builtInProfiles, activeProfile,
                   activeProfileFile>>

\* SpecProfiles: the manager as its constructor leaves it, for every set of
\* bundled and of custom profile files and every active-profile.json, then
\* selections, clearings and remote profiles saved
ProfileMaps(name) ==
    LET profile(id) == [id |-> id, name |-> name]
    IN  { <<>>, <<profile("midnight")>>, <<profile("defensio")>>,
          <<profile("midnight"), profile("defensio")>> }

ActiveProfileFiles ==
    { <<>>, <<[profileId |-> <<>>]>> }
      \cup { <<[profileId |-> <<id>>]>> : id \in ProfileIds \cup {UnknownProfileId} }

InitProfiles ==
    /\ receiptsFile = <<>>
    /\ errorsFile = <<>>
    /\ now = 0
    /\ lastHistory = <<>>
    /\ lastRemove = <<>>
    /\ InitRetryIdle
    /\ InitLedgerIdle
    /\ InitFeeIdle
    /\ lastNonce = <<>>
    /\ lastStats = <<>>
    /\ configFile = <<>>
    /\ lastConfig = <<>>
    /\ peer = <<>>
    /\ builtInProfiles \in ProfileMaps("bundled")
    /\ customProfiles \in ProfileMaps("remote")
    /\ activeProfileFile \in ActiveProfileFiles
    /\ activeProfile = loadActiveProfile(builtInProfiles, customProfiles, activeProfileFile)
    /\ lastProfile = <<>>

NextProfiles == SetActiveProfile \/ ClearActiveProfile \/ SaveRemoteProfile

SpecProfiles == InitProfiles /\ [][NextProfiles]_vars

---------------------------------------------------------------------------
(* Claims on the reconciliation (SpecReconcile) *)

\* The raw lines of a log that carry a key, as line numbers
LinesOf(file, key) == { i \in 1..Len(file) : KeyOf(file[i]) = key }

\* The entries of a reconciled list that carry a key
EntriesOf(list, key) == { i \in 1..Len(list) : KeyOf(list[i]) = key }

\* C1: in the response of reconcile, a key with at least one receipt in the logs
\* that were read is not among the active failures, and a key with failure events
\* and no receipt is there exactly once.
C1_SuccessPrecedence ==
    lastHistory # <<>> =>
        \A key \in Keys :
            LET nReceipts == Cardinality(LinesOf(lastHistory[1].snapReceipts, key))
                nFailures == Cardinality(LinesOf(lastHistory[1].snapErrors, key))
                nActive == Cardinality(EntriesOf(lastHistory[1].errors, key))
            IN  /\ nReceipts >= 1 => nActive = 0
                /\ (nFailures >= 1 /\ nReceipts = 0) => nActive = 1

\* A response over logs where one key failed and then got a receipt and another
\* key only failed: the active failures are the second key alone.
C1_Witness ==
    /\ lastHistory # <<>>
    /\ \E k1, k2 \in Keys :
          /\ k1 # k2
          /\ LinesOf(lastHistory[1].snapErrors, k1) # {}
          /\ LinesOf(lastHistory[1].snapReceipts, k1) # {}
          /\ LinesOf(lastHistory[1].snapErrors, k2) # {}
          /\ LinesOf(lastHistory[1].snapReceipts, k2) = {}
          /\ Len(lastHistory[1].errors) = 1
          /\ KeyOf(lastHistory[1].errors[1]) = k2

\* C2: the errorMap built from the failure log has, for every key with failure
\* events, one record whose retryCount is the number of the key's events, whose ts
\* is their earliest timestamp, whose lastAttempt is their latest timestamp and
\* whose error is the message of an event carrying that latest timestamp (the
\* most recent event), whatever the order of the lines; every active failure of
\* the response is such a record.
C2_Folded(file, rec) ==
    LET lines == LinesOf(file, KeyOf(rec))
    IN  /\ lines # {}
        /\ rec.retryCount = Cardinality(lines)
        /\ \A i \in lines : rec.ts <= file[i].ts
        /\ \E i \in lines : rec.ts = file[i].ts
        /\ \A i \in lines : rec.lastAttempt >= file[i].ts
        /\ \E i \in lines : rec.lastAttempt = file[i].ts /\ rec.error = file[i].error

C2_FailureFolding ==
    lastHistory # <<>> =>
        LET file == lastHistory[1].snapErrors
            map == uniqueErrors(readErrors(file))
        IN  /\ \A key \in Keys :
                  Cardinality(EntriesOf(map, key)) = IF LinesOf(file, key) = {} THEN 0 ELSE 1
            /\ \A i \in 1..Len(map) : C2_Folded(file, map[i])
            /\ \A i \in 1..Len(lastHistory[1].errors) : C2_Folded(file, lastHistory[1].errors[i])

\* An active failure folded from three events whose most recent one is not the
\* last line and whose earliest one is not the first, with different messages.
C2_Witness ==
    /\ lastHistory # <<>>
    /\ \E n \in 1..Len(lastHistory[1].errors) :
          LET rec == lastHistory[1].errors[n]
              file == lastHistory[1].snapErrors
          IN  /\ Len(file) = 3
              /\ rec.retryCount = 3
              /\ rec.ts < rec.lastAttempt
              /\ file[1].ts = rec.lastAttempt
              /\ file[Len(file)].ts = rec.lastAttempt
              /\ file[2].ts = rec.ts
              /\ file[2].error # rec.error

---------------------------------------------------------------------------
(* Claims on retry-all (SpecRetry) *)

ResultKey(result) == <<result.address, result.challengeId, result.nonce>>

\* retryCount of a key in the errorMap of the reconciliation, 0 when it has no record
RetryCountOf(file, key) ==
    LET map == uniqueErrors(readErrors(file))
    IN  IF EntriesOf(map, key) = {} THEN 0
        ELSE map[CHOOSE i \in EntriesOf(map, key) : TRUE].retryCount

C4_RejectedRetryIsLogged ==
    [][ \A r \in Invocations :
          (retry[r].pc = "posting" /\ retry'[r].pc = "delay" /\ retry'[r].failed = retry[r].failed + 1)
          => LET key == KeyOf(retry[r].recentErrors[retry[r].i])
             IN  /\ \A i \in LinesOf(errorsFile, key) :
                       \E j \in LinesOf(errorsFile', key) : errorsFile'[j] = errorsFile[i]
                 /\ RetryCountOf(errorsFile', key) = RetryCountOf(errorsFile, key) + 1 ]_vars

\* C5: the receipts log holds at most one receipt per key in every reachable state.
C5_AtMostOneReceiptPerKey ==
    \A key \in Keys : Cardinality(LinesOf(receiptsFile, key)) <= 1

\* The other half of C5, which the code keeps: every step leaves the receipts
\* already logged in place and unchanged.
C5_ReceiptsAppendOnly ==
    [][ /\ Len(receiptsFile') >= Len(receiptsFile)
        /\ \A i \in 1..Len(receiptsFile) : receiptsFile'[i] = receiptsFile[i] ]_vars

---------------------------------------------------------------------------
(* Claims on the challenge ledger (SpecLedger, SpecSelect) *)

\* The last call was logChallenge
Recorded == lastCall # <<>> /\ lastCall[1].op = "logChallenge"

\* The ledger as the next call sees it (initialize() loads the file when needed)
Stored == Initialize(Logger).history

\* C6: after an already-recorded challenge is recorded again, the deadline the
\* queries compare against (expiresAt) is the deadline of that record call.
C6_DeadlineUpdatedInPlace ==
    (Recorded /\ lastCall[1].existed) =>
        LET idx == IndexOf(history, lastCall[1].challenge.challenge_id)
        IN  /\ idx # 0
            /\ history[idx].expiresAt = lastCall[1].challenge.latest_submission

\* C7: after logChallenge(challenge, profileId) the ledger holds an entry of that
\* challenge for that profile, which getValidChallenges(profileId) returns while
\* its deadline is in the future.
C7_OneEntryPerProfile ==
    Recorded =>
        \E i \in 1..Len(history) :
            /\ history[i].challenge_id = lastCall[1].challenge.challenge_id
            /\ history[i].profileId = lastCall[1].profileId
            /\ history[i].expiresAt > now =>
                   history[i] \in Range(getValidChallenges(history, lastCall[1].profileId, now))

C9_ChangeLogStep ==
    [][ \A id \in ChallengeIds :
          LET i == IndexOf(Stored, id)
              j == IndexOf(Stored', id)
          IN  (i # 0 /\ j # 0) =>
                LET before == Stored[i]
                    after == Stored'[j]
                    called == /\ lastCall'[1].op = "logChallenge"
                              /\ lastCall'[1].challenge.challenge_id = id
                              /\ lastCall'[1].challenge.difficulty # before.difficulty
                IN  IF called
                    THEN /\ after.difficultyChanges =
                              Append(before.difficultyChanges,
                                     [timestamp |-> lastCall'[1].at,
                                      oldDifficulty |-> before.difficulty,
                                      newDifficulty |-> lastCall'[1].challenge.difficulty])
                         /\ after.difficulty = lastCall'[1].challenge.difficulty
                    ELSE /\ after.difficultyChanges = before.difficultyChanges
                         /\ after.difficulty = before.difficulty ]_vars

\* C9 (states): the entries of a difficulty change log chain (each old value is
\* the previous new value), each records a change, the last new value is the
\* stored difficulty, and after a logChallenge call the stored difficulty is
\* the call's.
C9_ChangeLogChain ==
    /\ \A n \in 1..Len(Stored) :
          LET log == Stored[n].difficultyChanges
          IN  /\ \A k \in 1..Len(log) : log[k].oldDifficulty # log[k].newDifficulty
              /\ \A k \in 1..(Len(log) - 1) : log[k + 1].oldDifficulty = log[k].newDifficulty
              /\ Len(log) > 0 => log[Len(log)].newDifficulty = Stored[n].difficulty
    /\ Recorded =>
          LET idx == IndexOf(history, lastCall[1].challenge.challenge_id)
          IN  idx # 0 /\ history[idx].difficulty = lastCall[1].challenge.difficulty

\* Both halves of C9
C9_DifficultyChangeLog == []C9_ChangeLogChain /\ C9_ChangeLogStep

\* A challenge whose difficulty was changed and changed back: two chained entries.
C9_Witness ==
    /\ Recorded
    /\ lastCall[1].existed
    /\ Len(lastCall[1].ret.difficultyChanges) = 2
    /\ lastCall[1].ret.difficultyChanges[2].oldDifficulty =
           lastCall[1].ret.difficultyChanges[1].newDifficulty
    /\ lastCall[1].ret.difficulty = lastCall[1].ret.difficultyChanges[1].oldDifficulty

\* The last call was getEasiestValidChallenge
Selected == lastCall # <<>> /\ lastCall[1].op = "getEasiestValidChallenge"

\* The entries a getEasiestValidChallenge call may return: the profile's, with
\* expiresAt - now strictly above the minutes asked for
Eligible(profileId, minutes, nowMs) ==
    { i \in 1..Len(history) :
        /\ history[i].profileId = profileId
        /\ history[i].expiresAt - nowMs > minutes * 60000 }

C11_SelectBestOrder ==
    (Selected /\ lastCall[1].ret # <<>>) =>
        LET call == lastCall[1]
            best == call.ret[1]
        IN  \A i \in Eligible(call.profileId, call.minutes, call.at) :
                /\ parseInt16(history[i].difficulty) <= parseInt16(best.difficulty)
                /\ parseInt16(history[i].difficulty) = parseInt16(best.difficulty)
                       => history[i].expiresAt >= best.expiresAt

\* The easier challenge (0x100) is returned although an eligible harder one (0xff)
\* expires sooner, and although an equally easy one with a later deadline was
\* recorded before it.
C11_Witness ==
    /\ Selected
    /\ lastCall[1].ret # <<>>
    /\ \E i \in Eligible(lastCall[1].profileId, lastCall[1].minutes, lastCall[1].at) :
          /\ parseInt16(history[i].difficulty) < parseInt16(lastCall[1].ret[1].difficulty)
          /\ history[i].expiresAt < lastCall[1].ret[1].expiresAt
    /\ \E j \in Eligible(lastCall[1].profileId, lastCall[1].minutes, lastCall[1].at) :
          /\ history[j].difficulty = lastCall[1].ret[1].difficulty
          /\ history[j].expiresAt > lastCall[1].ret[1].expiresAt
          /\ j < IndexOf(history, lastCall[1].ret[1].challenge_id)

\* The last call was getSameDayChallenges
Cohorted == lastCall # <<>> /\ lastCall[1].op = "getSameDayChallenges"

\* C12: getSameDayChallenges(noPreMine, profileId) returns exactly the profile's
\* still-valid entries with that no_pre_mine, difficulty descending and, among
\* equal difficulties, deadline ascending.
C12_SameCohortOrder ==
    Cohorted =>
        LET call == lastCall[1]
            ret == call.ret
        IN  /\ Range(ret) = { history[i] : i \in { k \in 1..Len(history) :
                                  /\ history[k].profileId = call.profileId
                                  /\ history[k].no_pre_mine = call.noPreMine
                                  /\ history[k].expiresAt > call.at } }
            /\ \A i, j \in 1..Len(ret) :
                  i < j =>
                    /\ parseInt16(ret[i].difficulty) >= parseInt16(ret[j].difficulty)
                    /\ parseInt16(ret[i].difficulty) = parseInt16(ret[j].difficulty)
                           => ret[i].expiresAt <= ret[j].expiresAt

---------------------------------------------------------------------------
(* Claims on the fee pool (SpecPool, SpecRotate) *)

\* The last call was a prefetchAddressPool that sent its ten requests
Prefetched ==
    lastFee # <<>> /\ lastFee[1].op = "prefetchAddressPool" /\ lastFee[1].attempted

\* The last call was getDevFeeAddress
Asked == lastFee # <<>> /\ lastFee[1].op = "getDevFeeAddress"

\* C13: the pool holds 0 or 10 addresses; a prefetch that obtained fewer than 10
\* valid addresses returns false and leaves the pool empty, whatever was held
\* before; with such a pool hasValidAddressPool is false and getDevFeeAddress fails.
C13_PrefetchAllOrNothing ==
    /\ Len(feeCache.addressPool) \in {0, PoolSize}
    /\ (Prefetched /\ lastFee[1].fetched < PoolSize) =>
          /\ ~lastFee[1].ret
          /\ feeCache.addressPool = <<>>
          /\ feeFile = <<feeCache>>
          /\ ~hasValidAddressPool(feeCache)
          /\ ~getDevFeeAddress(feeCache).ok
    /\ (Prefetched /\ lastFee[1].fetched = PoolSize) =>
          lastFee[1].ret /\ hasValidAddressPool(feeCache)
    /\ (Asked /\ ~hasValidAddressPool(feeCache)) => ~lastFee[1].result.ok

\* A prefetch that obtained 7 addresses while a full pool was held
C13_Witness ==
    /\ Prefetched
    /\ lastFee[1].fetched = 7
    /\ lastFee[1].hadPool
    /\ feeCache.addressPool = <<>>

\* The pool slot (0..9) whose address getDevFeeAddress returns; the addresses of a
\* pool differ from slot to slot
SelectedSlot(cache) ==
    CHOOSE k \in 0..(PoolSize - 1) :
        cache.addressPool[k + 1].address = getDevFeeAddress(cache).ret

\* A step of recordDevFeeSolution made with a full pool
RecordedWithPool ==
    /\ lastFee' # <<>>
    /\ lastFee'[1].op = "recordDevFeeSolution"
    /\ feeCache' # feeCache
    /\ hasValidAddressPool(feeCache)

\* C14 (states): with a full pool getDevFeeAddress selects the slot
\* totalDevFeeSolutions mod 10, and the call returned that slot's address.
C14_SlotIsCounterMod ==
    /\ hasValidAddressPool(feeCache) =>
          /\ getDevFeeAddress(feeCache).ok
          /\ SelectedSlot(feeCache) = feeCache.totalDevFeeSolutions % PoolSize
    /\ (Asked /\ hasValidAddressPool(feeCache)) =>
          /\ lastFee[1].result.ok
          /\ lastFee[1].result.ret =
                 feeCache.addressPool[SelectedSlot(feeCache) + 1].address

\* C14 (steps): getDevFeeAddress changes nothing, so calling it again returns the
\* same address; each recordDevFeeSolution moves the selected slot to the next
\* index, wrapping from 9 to 0, so ten of them in a row select every slot once.
C14_SlotAdvances ==
    [][ /\ Asked' =>
              /\ feeCache' = feeCache
              /\ lastFee'[1].result = getDevFeeAddress(feeCache)
        /\ RecordedWithPool =>
              /\ hasValidAddressPool(feeCache')
              /\ SelectedSlot(feeCache') = (SelectedSlot(feeCache) + 1) % PoolSize ]_vars

\* Both halves of C14
C14_RoundRobin == []C14_SlotIsCounterMod /\ C14_SlotAdvances

\* After ten fee solutions the first slot is returned again
C14_Witness ==
    /\ Asked
    /\ lastFee[1].result.ok
    /\ feeCache.totalDevFeeSolutions = PoolSize
    /\ lastFee[1].result.ret = feeCache.addressPool[1].address
    /\ lastFee[1].result.ret # feeCache.addressPool[PoolSize].address

\* C15: recordDevFeeSolution adds one to totalDevFeeSolutions and one to the
\* usedCount of the slot getDevFeeAddress selected before the call, and leaves the
\* usedCount of every other slot as it was.
C15_SlotUseCounted ==
    [][ RecordedWithPool =>
          /\ feeCache'.totalDevFeeSolutions = feeCache.totalDevFeeSolutions + 1
          /\ \A k \in 0..(PoolSize - 1) :
                feeCache'.addressPool[k + 1].usedCount =
                    feeCache.addressPool[k + 1].usedCount
                        + (IF k = SelectedSlot(feeCache) THEN 1 ELSE 0) ]_vars

\* The last call constructed a manager while a cache file existed
Restarted ==
    lastFee # <<>> /\ lastFee[1].op = "construct" /\ lastFee[1].before # <<>>

\* C16: a manager constructed while a cache file exists starts with the file's
\* totalDevFeeSolutions, clientId and addressPool, and leaves the file as it was.
C16_CacheSurvivesRestart ==
    Restarted =>
        /\ feeCache.totalDevFeeSolutions = lastFee[1].before[1].totalDevFeeSolutions
        /\ feeCache.clientId = lastFee[1].before[1].clientId
        /\ feeConfig.clientId = lastFee[1].before[1].clientId[1]
        /\ feeCache.addressPool = lastFee[1].before[1].addressPool
        /\ feeFile = lastFee[1].before

---------------------------------------------------------------------------
(* Claims on removeError and the reconciliation (SpecRemove) *)

\* removeError was called and errors.jsonl is as the call left it
Removed == lastRemove # <<>> /\ lastRemove[1].after = errorsFile

\* The events of a key among the lines of a log
EventsOf(file, key) ==
    { i \in 1..Len(file) : IsEvent(file[i]) /\ KeyOf(file[i]) = key }

OtherLines(file, key) ==
    SelectSeq(file, LAMBDA line : ~IsEvent(line) \/ KeyOf(line) # key)

\* C18: removeError leaves every line that is not an event of the key (lines that
\* are not events, and events of another address, challenge or nonce) in the
\* failure log, in the same order, and leaves the receipts log as it was.
C18_RemoveFrame ==
    lastRemove # <<>> =>
        LET call == lastRemove[1]
        IN  /\ OtherLines(call.after, call.key) = OtherLines(call.before, call.key)
            /\ Len(call.after) = Len(call.before)
                                   - Cardinality(EventsOf(call.before, call.key))
            /\ call.receiptsAfter = call.receiptsBefore

\* A log with a line that is not an event, an event of the key and an event of
\* the same challenge and nonce but another address: the first and last are kept
C18_Witness ==
    /\ lastRemove # <<>>
    /\ LET call == lastRemove[1]
       IN  /\ Len(call.before) = 3
           /\ Len(call.after) = 2
           /\ \E i \in 1..3 : ~IsEvent(call.before[i])
           /\ \E i \in 1..3 : /\ IsEvent(call.before[i])
                              /\ call.before[i].address # call.key[1]
                              /\ call.before[i].challenge_id = call.key[2]
                              /\ call.before[i].nonce = call.key[3]

---------------------------------------------------------------------------
(* Claims on the reconciliation as a read-only view (SpecReconcile) *)

\* C19 (steps): a reconciliation leaves receipts.jsonl and errors.jsonl as they
\* were, and answers with what the logs determine; a second one over the same
\* logs gives the same receipts, active failures and address history.
C19_ReadOnlyStep ==
    [][ lastHistory' # lastHistory =>
          /\ receiptsFile' = receiptsFile
          /\ errorsFile' = errorsFile
          /\ lastHistory'[1].snapReceipts = receiptsFile'
          /\ lastHistory'[1].snapErrors = errorsFile'
          /\ lastHistory'[1] = Reconcile(receiptsFile', errorsFile') ]_vars

\* C19 (states): while the logs are as the last reconciliation read them, another
\* reconciliation returns the same receipts, active failures and address history.
C19_Repeatable ==
    (/\ lastHistory # <<>>
     /\ lastHistory[1].snapReceipts = receiptsFile
     /\ lastHistory[1].snapErrors = errorsFile) =>
        LET again == Reconcile(receiptsFile, errorsFile)
        IN  /\ again.receipts = lastHistory[1].receipts
            /\ again.errors = lastHistory[1].errors
            /\ again.addressHistory = lastHistory[1].addressHistory

---------------------------------------------------------------------------
(* Claims on the retry-all selection (SpecRetrySelect) *)

\* The keys retry-all is to re-submit, given the logs and the time it read: no
\* receipt, and the most recent failure event less than 24 hours old
RetryableKeys(rFile, eFile, nowMs) ==
    { key \in { KeyOf(eFile[i]) : i \in 1..Len(eFile) } :
        /\ LinesOf(rFile, key) = {}
        /\ \E i \in LinesOf(eFile, key) :
              /\ \A j \in LinesOf(eFile, key) : eFile[j].ts <= eFile[i].ts
              /\ eFile[i].ts > nowMs - RetryWindowMs }

\* C20 (steps): the selection an invocation makes when it reads the logs holds
\* exactly the retryable keys, each once.
C20_SelectionStep ==
    [][ \A r \in Invocations :
          (retry[r].pc = "idle" /\ retry'[r].pc \in {"posting", "done"}) =>
              LET selected == retry'[r].recentErrors
              IN  /\ { KeyOf(selected[i]) : i \in 1..Len(selected) }
                         = RetryableKeys(receiptsFile, errorsFile, now)
                  /\ \A i, j \in 1..Len(selected) :
                         i # j => KeyOf(selected[i]) # KeyOf(selected[j]) ]_vars

\* C20 (states): an invocation posts the selected keys one after the other, each
\* once: its results are the selection up to the current position, and the whole
\* selection when it is done.
C20_SubmittedOnce ==
    \A r \in Invocations :
        LET call == retry[r]
        IN  /\ Len(call.results) <= Len(call.recentErrors)
            /\ \A n \in 1..Len(call.results) :
                  ResultKey(call.results[n]) = KeyOf(call.recentErrors[n])
            /\ call.pc = "posting" => Len(call.results) = call.i - 1
            /\ call.pc = "delay" => Len(call.results) = call.i
            /\ call.pc = "done" => Len(call.results) = Len(call.recentErrors)

\* Both halves of C20
C20_RetrySelection == []C20_SubmittedOnce /\ C20_SelectionStep

\* An invocation that ended after one post, for a key with two failure events of
\* which only the later is less than 24 hours old, while the other key has a
\* receipt
C20_Witness ==
    /\ retry["req1"].pc = "done"
    /\ Len(retry["req1"].results) = 1
    /\ retry["req1"].recentErrors[1].ts = 1
    /\ now = TickMs
    /\ Len(errorsFile) = 2
    /\ Cardinality(LinesOf(errorsFile, KeyOf(retry["req1"].recentErrors[1]))) = 2
    /\ \E i \in 1..2 : errorsFile[i].ts = 0
    /\ Len(receiptsFile) = 1
    /\ KeyOf(receiptsFile[1]) # KeyOf(retry["req1"].recentErrors[1])


---------------------------------------------------------------------------
(* Claims on retry-all over old failures (SpecRetryOld) *)

\* Every failure event of the log is older than the 24 hours
AllOlderThanWindow(eFile, nowMs) ==
    \A i \in 1..Len(eFile) : IsEvent(eFile[i]) => eFile[i].ts < nowMs - RetryWindowMs

\* C21: when every failure event in the log is older than the retry window, a
\* retry-all invocation that reads the logs ends at once with total 0, succeeded 0,
\* failed 0 and no results, without issuing a post, and both logs are as before.
C21_OldFailuresNotRetried ==
    [][ \A r \in Invocations :
          ( /\ retry[r].pc = "idle"
            /\ retry'[r].pc \in {"posting", "done"}
            /\ AllOlderThanWindow(errorsFile, now) )
          => /\ retry'[r].pc = "done"
             /\ retry'[r].total = 0
             /\ retry'[r].succeeded = 0
             /\ retry'[r].failed = 0
             /\ retry'[r].results = <<>>
             /\ receiptsFile' = receiptsFile
             /\ errorsFile' = errorsFile ]_vars

\* An invocation that ended with nothing to retry over a log of two or more
\* failure events without receipt, all older than 24 hours
C21_Witness ==
    /\ retry["req1"].pc = "done"
    /\ retry["req1"].total = 0
    /\ Len(errorsFile) >= 2
    /\ receiptsFile = <<>>
    /\ AllOlderThanWindow(errorsFile, now)

---------------------------------------------------------------------------
(* Claims on the retry-all batch (SpecRetry) *)

\* Number of results of a list that report the given outcome
OutcomeCount(results, success) ==
    Cardinality({ n \in 1..Len(results) : results[n].success = success })

\* C22 (states): the counters of an invocation count its per-item results, and a
\* completed invocation has one result per selected key, in the order of the
\* selection, with total = succeeded + failed = results = selected keys.
C22_OneResultPerSelected ==
    \A r \in Invocations :
        LET call == retry[r]
        IN  /\ call.succeeded = OutcomeCount(call.results, TRUE)
            /\ call.failed = OutcomeCount(call.results, FALSE)
            /\ call.succeeded + call.failed = Len(call.results)
            /\ call.pc = "done" =>
                  /\ call.total = Len(call.recentErrors)
                  /\ call.total = call.succeeded + call.failed
                  /\ Len(call.results) = Len(call.recentErrors)
                  /\ \A n \in 1..Len(call.recentErrors) :
                        ResultKey(call.results[n]) = KeyOf(call.recentErrors[n])

\* C22 (steps): an invocation that is posting goes on whatever the outcome of an
\* item: its selection stays as read, its results only grow, by the item posted,
\* and it ends only when every selected item has been posted.
C22_BatchGoesOn ==
    [][ \A r \in Invocations :
          retry[r].pc \in {"posting", "delay"} =>
              /\ retry'[r].pc \in {"posting", "delay", "done"}
              /\ retry'[r].recentErrors = retry[r].recentErrors
              /\ Len(retry'[r].results) >= Len(retry[r].results)
              /\ \A n \in 1..Len(retry[r].results) :
                    retry'[r].results[n] = retry[r].results[n]
              /\ (retry[r].pc = "posting" /\ retry'[r] # retry[r]) =>
                    /\ Len(retry'[r].results) = Len(retry[r].results) + 1
                    /\ retry'[r].pc = "delay"
              /\ retry'[r].pc = "done" => retry[r].i = Len(retry[r].recentErrors) ]_vars

\* Both halves of C22
C22_FailureDoesNotAbort == []C22_OneResultPerSelected /\ C22_BatchGoesOn

\* A completed invocation whose first item was rejected and whose second item
\* was accepted afterwards
C22_Witness ==
    \E r \in Invocations :
        /\ retry[r].pc = "done"
        /\ Len(retry[r].recentErrors) = 2
        /\ Len(retry[r].results) = 2
        /\ ~retry[r].results[1].success
        /\ retry[r].results[2].success

---------------------------------------------------------------------------
(* Claims on the listing of valid challenges (SpecValid) *)

\* The last call was getValidChallenges
Validated == lastCall # <<>> /\ lastCall[1].op = "getValidChallenges"

\* The entries of a profile whose expiresAt is after the given time
ValidOf(profileId, nowMs) ==
    { i \in 1..Len(history) :
        history[i].profileId = profileId /\ history[i].expiresAt > nowMs }

\* C23: getValidChallenges(profileId) returns exactly the entries of the profile
\* whose expiresAt is strictly after the time of the call, each once, newest
\* firstSeenAt first; an entry that expires at that time or before is not returned.
C23_ValidChallenges ==
    Validated =>
        LET call == lastCall[1]
            valid == ValidOf(call.profileId, call.at)
        IN  /\ Len(call.ret) = Cardinality(valid)
            /\ \A i \in valid : \E n \in 1..Len(call.ret) : call.ret[n] = history[i]
            /\ \A n \in 1..Len(call.ret) :
                  /\ call.ret[n].profileId = call.profileId
                  /\ call.ret[n].expiresAt > call.at
                  /\ \E i \in valid : call.ret[n] = history[i]
            /\ \A n, k \in 1..Len(call.ret) :
                  n < k => call.ret[n].firstSeenAt >= call.ret[k].firstSeenAt

\* Two entries are returned, the one recorded later first, while a third entry of
\* the profile that expires exactly at the time of the call is left out.
C23_Witness ==
    /\ Validated
    /\ Len(lastCall[1].ret) = 2
    /\ lastCall[1].ret[1].firstSeenAt > lastCall[1].ret[2].firstSeenAt
    /\ \E i \in 1..Len(history) :
          /\ history[i].profileId = lastCall[1].profileId
          /\ history[i].expiresAt = lastCall[1].at

---------------------------------------------------------------------------
(* Claims on the retention sweep (SpecSweep) *)

\* The last call was cleanupOldChallenges
Swept == lastCall # <<>> /\ lastCall[1].op = "cleanupOldChallenges"

---------------------------------------------------------------------------
(* Claims on the import (SpecSeed) *)

\* The last call was seedFromApi
Seeded == lastCall # <<>> /\ lastCall[1].op = "seedFromApi"

\* The entries of a response, none when the request failed
Incoming(response) == IF response = <<>> THEN <<>> ELSE response[1]

\* What a seedFromApi step does to the ledger, when the incoming entries to be
\* taken are those whose expiresAt has not passed and, if both deadlines are to be
\* read, whose latest_submission has not passed either: the entries present stay as they are, one entry is added, at the
\* end, per challenge_id of an incoming entry to be taken that the ledger does not
\* hold, each added entry is such an incoming entry with the local profileId, and
\* the count returned is the number of entries added.
ImportStep(both) ==
    (Seeded' /\ lastCall' # lastCall) =>
        LET call == lastCall'[1]
            incoming == Incoming(call.response)
            taken == { i \in 1..Len(incoming) :
                         /\ IndexOf(history, incoming[i].challenge_id) = 0
                         /\ incoming[i].expiresAt > now
                         /\ both => incoming[i].latest_submission > now }
            added == (Len(history) + 1)..Len(history')
        IN  /\ Len(history') >= Len(history)
            /\ \A i \in 1..Len(history) : history'[i] = history[i]
            /\ { history'[n].challenge_id : n \in added }
                   = { incoming[i].challenge_id : i \in taken }
            /\ \A n, k \in added :
                   n # k => history'[n].challenge_id # history'[k].challenge_id
            /\ \A n \in added :
                   /\ history'[n].profileId = call.profileId
                   /\ \E i \in taken :
                         history'[n] = [incoming[i] EXCEPT !.profileId = call.profileId]
            /\ call.ret = Cardinality(added)

\* C25: seedFromApi adds exactly the incoming entries whose challenge_id is not in
\* the ledger and of which neither expiresAt nor latest_submission has passed, a
\* repeated challenge_id once, with the local profileId; the entries present are
\* unchanged and the count returned is the number of entries added.
C25_ImportSkipsDead == [][ImportStep(TRUE)]_vars

\* What the code keeps of C25: the same with expiresAt as the only deadline read
C25_ImportSkipsExpired == [][ImportStep(FALSE)]_vars

---------------------------------------------------------------------------
(* Claims on generateNonce (SpecNonce) *)

\* The remembered calls whose workerId is in the range 0..255
InRange == { n \in 1..Len(lastNonce) : lastNonce[n].workerId \in 0..255 }

IsLowerHex(c) == \E v \in 1..16 : HexDigits[v] = c

\* C26: for a workerId in 0..255 generateNonce returns 16 lowercase hexadecimal
\* characters of which the first two are the workerId in hexadecimal, whatever the
\* seven random bytes; two calls with different workerIds of the range return
\* different nonces.
C26_NoncePartition ==
    /\ \A n \in InRange :
          LET call == lastNonce[n]
          IN  /\ ~call.ret.threw
              /\ Len(call.ret.nonce) = 16
              /\ \A i \in 1..Len(call.ret.nonce) : IsLowerHex(call.ret.nonce[i])
              /\ parseInt16(SubSeq(call.ret.nonce, 1, 2)) = call.workerId
    /\ \A n, k \in InRange :
          lastNonce[n].workerId # lastNonce[k].workerId
              => lastNonce[n].ret.nonce # lastNonce[k].ret.nonce

\* Workers 1 and 16 got the same seven random bytes, of which some are below 16:
\* the nonces 01... and 10... differ in the first byte only
C26_Witness ==
    /\ Len(lastNonce) = 2
    /\ lastNonce[1].workerId = 1
    /\ lastNonce[2].workerId = 16
    /\ lastNonce[1].draws = lastNonce[2].draws
    /\ \E i \in 1..7 : lastNonce[1].draws[i] < 16
    /\ SubSeq(lastNonce[1].ret.nonce, 3, 16) = SubSeq(lastNonce[2].ret.nonce, 3, 16)

\* C27: generateNonce with a workerId outside 0..255 raises an error.
C27_OutOfRangeRejected ==
    \A n \in 1..Len(lastNonce) :
        lastNonce[n].workerId \notin 0..255 => lastNonce[n].ret.threw

---------------------------------------------------------------------------
(* Claims on computeStats (SpecStats) *)

\* computeStats has been called
Computed == lastStats # <<>>

\* The day of a submission: day d runs from the mining start plus d - 1 days up to,
\* not including, the mining start plus d days
DayOfSubmission(ts) ==
    CHOOSE d \in (0 - 1)..(MaxStatsReceipts + 5) :
        /\ MiningStart + (d - 1) * DayMs <= ts
        /\ ts < MiningStart + d * DayMs

\* The receipts of a call submitted on a day, by any address or by one address
ReceiptsOn(receipts, day) ==
    { i \in 1..Len(receipts) : DayOfSubmission(receipts[i].ts) = day }

ReceiptsOf(receipts, address, day) ==
    { i \in ReceiptsOn(receipts, day) : receipts[i].address = address }

\* C28: every receipt is counted in exactly one global day bucket and exactly one
\* day bucket of its address, that of the day of its submission timestamp; the
\* count of a bucket is the number of receipts submitted on its day; the counts of
\* the global buckets, and of the buckets of all addresses together, sum to the
\* number of receipts.
C28_SubmissionDayBuckets ==
    Computed =>
        LET call == lastStats[1]
            ret == call.ret
        IN  /\ \A n, k \in 1..Len(ret.days) : n # k => ret.days[n].day # ret.days[k].day
            /\ \A i \in 1..Len(call.receipts) :
                  \E n \in 1..Len(ret.days) :
                      ret.days[n].day = DayOfSubmission(call.receipts[i].ts)
            /\ \A n \in 1..Len(ret.days) :
                  /\ ret.days[n].receipts
                         = Cardinality(ReceiptsOn(call.receipts, ret.days[n].day))
                  /\ ret.days[n].receipts > 0
            /\ SumSeq([n \in 1..Len(ret.days) |-> ret.days[n].receipts])
                   = Len(call.receipts)
            /\ \A a, b \in 1..Len(ret.byAddress) :
                  a # b => ret.byAddress[a].address # ret.byAddress[b].address
            /\ \A i \in 1..Len(call.receipts) :
                  \E a \in 1..Len(ret.byAddress) :
                      /\ ret.byAddress[a].address = call.receipts[i].address
                      /\ \E n \in 1..Len(ret.byAddress[a].days) :
                            ret.byAddress[a].days[n].day
                                = DayOfSubmission(call.receipts[i].ts)
            /\ \A a \in 1..Len(ret.byAddress) :
                  LET stats == ret.byAddress[a]
                  IN  /\ \A n, k \in 1..Len(stats.days) :
                             n # k => stats.days[n].day # stats.days[k].day
                      /\ \A n \in 1..Len(stats.days) :
                             /\ stats.days[n].receipts
                                    = Cardinality(ReceiptsOf(call.receipts, stats.address,
                                                             stats.days[n].day))
                             /\ stats.days[n].receipts > 0
                      /\ stats.totalReceipts
                             = SumSeq([n \in 1..Len(stats.days) |-> stats.days[n].receipts])
            /\ SumSeq([a \in 1..Len(ret.byAddress) |-> ret.byAddress[a].totalReceipts])
                   = Len(call.receipts)
            /\ ret.totalReceipts = Len(call.receipts)
            /\ ret.grandTotal.receipts = Len(call.receipts)

\* Three receipts of one address: two of day 1, one of them for a challenge whose
\* id names day 3, and one of day 2 for a challenge whose id names day 1
C28_Witness ==
    /\ Computed
    /\ Len(lastStats[1].receipts) = 3
    /\ Len(lastStats[1].ret.days) = 2
    /\ lastStats[1].ret.days[1].day = 2
    /\ lastStats[1].ret.days[1].receipts = 1
    /\ lastStats[1].ret.days[2].day = 1
    /\ lastStats[1].ret.days[2].receipts = 2
    /\ \E i \in 1..3 :
          /\ DayOfSubmission(lastStats[1].receipts[i].ts) = 1
          /\ dayFromChallengeId(lastStats[1].receipts[i].challenge_id) = 3
    /\ \E i \in 1..3 :
          /\ DayOfSubmission(lastStats[1].receipts[i].ts) = 2
          /\ dayFromChallengeId(lastStats[1].receipts[i].challenge_id) = 1

\* The rate of a day: rates[day - 1] of the zero-based array when that index
\* exists, else 0
PublishedRate(day, rates) == IF day \in 1..Len(rates) THEN rates[day] ELSE 0

---------------------------------------------------------------------------
(* Claims on the mining configuration (SpecConfig) *)

\* loadConfig has been called after the last updateConfig
Reloaded == lastConfig # <<>> /\ lastConfig[1].loaded # <<>>

\* What the last updateConfig was to return: the configuration persisted before
\* it, with the fields named in the update overridden
Overridden(call) ==
    /\ \A field \in DOMAIN call.updates : call.ret[field] = call.updates[field]
    /\ \A field \in DOMAIN call.persisted \ DOMAIN call.updates :
          call.ret[field] = call.persisted[field]

\* C30: whatever the outcome of the write, the configuration the last updateConfig
\* returned is the persisted one with the update's fields overridden, and a
\* loadConfig that follows returns the same configuration.
C30_NoConfigDrift ==
    /\ lastConfig # <<>> => Overridden(lastConfig[1])
    /\ Reloaded => lastConfig[1].loaded[1] = lastConfig[1].ret

\* What the code keeps of C30: the same when the write of the last updateConfig
\* succeeded
C30_NoDriftWhenWritten ==
    /\ lastConfig # <<>> => Overridden(lastConfig[1])
    /\ (Reloaded /\ lastConfig[1].written) => lastConfig[1].loaded[1] = lastConfig[1].ret

---------------------------------------------------------------------------
(* Claims on failed file operations and interleavings *)

\* The keys with a line in a log
KeysIn(file) == { KeyOf(file[i]) : i \in { j \in 1..Len(file) : IsEvent(file[j]) } }

\* C31: at every point of a retry-all run, whatever the outcome of the append of
\* the receipt, every key with a failure event before the run is in the failure
\* log or in the receipts log.
C31_NeverAbsentFromBoth ==
    \A key \in recorded : key \in KeysIn(errorsFile) \cup KeysIn(receiptsFile)


\* C32: after a removeError(k1) and a logError of another key k2 by another
\* writer have both completed, in whatever order their steps were taken, the
\* event of k2 is in the failure log.
C32_AppendSurvivesRemoval ==
    (lastRemove # <<>> /\ lastRemove[1].pc = "done")
        => \A k2 \in recorded \ {lastRemove[1].key} :
              \E i \in 1..Len(errorsFile) :
                  /\ KeyOf(errorsFile[i]) = k2
                  /\ errorsFile[i].error = "rejected"

---------------------------------------------------------------------------
(* Claims on the address history (SpecRemove) *)

\* The receipts of a group (addressIndex, challengeId) in the log that was read
GroupReceipts(call, group) ==
    { i \in 1..Len(call.snapReceipts) : HistoryKeyOf(call.snapReceipts[i]) = group }

\* The active failures of a group: the keys with a failure event and no receipt
GroupFailures(call, group) ==
    { key \in KeysIn(call.snapErrors) \ KeysIn(call.snapReceipts) :
        \E i \in 1..Len(call.snapErrors) :
            /\ IsEvent(call.snapErrors[i])
            /\ KeyOf(call.snapErrors[i]) = key
            /\ HistoryKeyOf(call.snapErrors[i]) = group }

\* The groups of the events of both logs
GroupsOf(call) ==
    { HistoryKeyOf(call.snapReceipts[i]) : i \in 1..Len(call.snapReceipts) }
        \cup { HistoryKeyOf(call.snapErrors[i]) :
                 i \in { j \in 1..Len(call.snapErrors) : IsEvent(call.snapErrors[j]) } }

\* C33: in the address history a group (addressIndex, challengeId) has status
\* success exactly when it has a receipt, whatever its active failures, and status
\* failed exactly when it has no receipt and an active failure; totalAttempts is
\* successCount + failureCount and the failure list has failureCount entries. The
\* counts are those of the group's receipts and active failures, and each group
\* with a receipt or an active failure has one entry.
C33_GroupStatus ==
    lastHistory # <<>> =>
        LET call == lastHistory[1]
            list == call.addressHistory
        IN  /\ \A n \in 1..Len(list) :
                  LET h == list[n]
                      group == <<h.addressIndex, h.challengeId>>
                  IN  /\ h.status = "success" <=> GroupReceipts(call, group) # {}
                      /\ h.status = "failed" <=> /\ GroupReceipts(call, group) = {}
                                                 /\ GroupFailures(call, group) # {}
                      /\ h.totalAttempts = h.successCount + h.failureCount
                      /\ Len(h.failures) = h.failureCount
                      /\ h.successCount = Cardinality(GroupReceipts(call, group))
                      /\ h.failureCount = Cardinality(GroupFailures(call, group))
            /\ \A group \in GroupsOf(call) :
                  (GroupReceipts(call, group) # {} \/ GroupFailures(call, group) # {})
                      => Cardinality({ n \in 1..Len(list) :
                             <<list[n].addressIndex, list[n].challengeId>> = group }) = 1

\* A group with a receipt and an active failure of another nonce is shown as
\* success, next to a group that has only failed
C33_Witness ==
    /\ lastHistory # <<>>
    /\ \E n, k \in 1..Len(lastHistory[1].addressHistory) :
          /\ lastHistory[1].addressHistory[n].status = "success"
          /\ lastHistory[1].addressHistory[n].failureCount = 1
          /\ lastHistory[1].addressHistory[n].successCount = 1
          /\ lastHistory[1].addressHistory[k].status = "failed"
          /\ lastHistory[1].addressHistory[k].failureCount > 0

---------------------------------------------------------------------------
(* Claims on reading the logs (SpecRead) *)

\* The records of the well-formed lines of a log from line i on, in file order
RECURSIVE WellFormedFrom(_, _)
WellFormedFrom(file, i) ==
    IF i > Len(file) THEN <<>>
    ELSE IF IsEvent(file[i]) THEN <<file[i]>> \o WellFormedFrom(file, i + 1)
    ELSE WellFormedFrom(file, i + 1)

\* C34: readReceipts and readErrors return exactly the records of the well-formed
\* lines of their log, in file order, whatever the number and the position of the
\* lines that do not parse.
C34_MalformedLinesSkipped ==
    lastHistory # <<>> =>
        /\ lastHistory[1].receipts = WellFormedFrom(lastHistory[1].snapReceipts, 1)
        /\ lastHistory[1].errors = WellFormedFrom(lastHistory[1].snapErrors, 1)

\* receipts.jsonl begins and ends with a line that does not parse, errors.jsonl
\* has one between two events: the events are returned
C34_Witness ==
    /\ lastHistory # <<>>
    /\ Len(lastHistory[1].snapReceipts) = 3
    /\ ~IsEvent(lastHistory[1].snapReceipts[1])
    /\ IsEvent(lastHistory[1].snapReceipts[2])
    /\ ~IsEvent(lastHistory[1].snapReceipts[3])
    /\ lastHistory[1].receipts = <<lastHistory[1].snapReceipts[2]>>
    /\ Len(lastHistory[1].snapErrors) = 3
    /\ IsEvent(lastHistory[1].snapErrors[1])
    /\ ~IsEvent(lastHistory[1].snapErrors[2])
    /\ IsEvent(lastHistory[1].snapErrors[3])
    /\ lastHistory[1].errors = <<lastHistory[1].snapErrors[1], lastHistory[1].snapErrors[3]>>

---------------------------------------------------------------------------
(* Claims on a failed seeding (SpecSeedRestart) *)

\* The step is a seedFromApi whose request failed, timed out or was answered with
\* a body that holds no array
FailedSeedStep ==
    /\ Seeded'
    /\ lastCall' # lastCall
    /\ lastCall'[1].response = <<>>

\* C35: when the seeding request fails, times out or is answered with a body that
\* holds no array, seedFromApi returns 0 and the ledger's entries are exactly those
\* before the call: on disk, and in memory for a ledger that has loaded its file.
C35_FailedSeedKeepsLedger ==
    [][FailedSeedStep =>
          /\ lastCall'[1].ret = 0
          /\ historyFile' = historyFile
          /\ initialized => history' = history]_vars

\* C35 as amended: seedFromApi then returns 0 and the ledger's entries, in memory
\* and on disk, are exactly those of the history file as initialize() loads it; for
\* a ledger that has loaded its file they are exactly those before the call.
C35_FailedSeedKeepsLoadedLedger ==
    [][FailedSeedStep =>
          /\ lastCall'[1].ret = 0
          /\ history' = Initialize(Logger).history
          /\ historyFile' = Initialize(Logger).file
          /\ Len(history') = IF initialized THEN Len(history)
                             ELSE IF historyFile = <<>> THEN 0
                             ELSE Len(historyFile[1])
          /\ \A i \in 1..Len(history') :
                history'[i] = IF initialized THEN history[i]
                              ELSE Migrated(historyFile[1][i])
          /\ initialized => (history' = history /\ historyFile' = historyFile)]_vars

\* A failed seeding left a ledger of two entries as it was, after an earlier
\* seeding had imported one of them
C35_Witness ==
    /\ Seeded
    /\ lastCall[1].response = <<>>
    /\ lastCall[1].ret = 0
    /\ Len(history) = 2
    /\ historyFile = <<history>>
    /\ \E i \in 1..2 : history[i].firstSeenAt = 0 /\ history[i].lastSeenAt = 0
                          /\ history[i].profileId # "remote"

\* The challenge ids of a list of entries
IdsOf(entries) == { entries[i].challenge_id : i \in 1..Len(entries) }

\* The challenge ids of the history file
StoredIds == IF historyFile = <<>> THEN {} ELSE IdsOf(historyFile[1])

\* C36: upserts of independent writers are not lost. When two ledger instances on
\* the same history file have each recorded new challenges the other does not
\* hold (each loaded the file before the other wrote), the file holds the
\* challenges of both.
C36_UpsertsNotLost ==
    (/\ initialized
     /\ peer # <<>>
     /\ peer[1].initialized
     /\ IdsOf(history) # {}
     /\ IdsOf(peer[1].history) # {}
     /\ IdsOf(history) \cap IdsOf(peer[1].history) = {})
        => IdsOf(history) \cup IdsOf(peer[1].history) \subseteq StoredIds


---------------------------------------------------------------------------
(* Claims on the course of a retry-all request (SpecRetryLive) *)

\* The submissions issued so far by a request: the one in flight and those before
Issued(r) ==
    IF retry[r].pc \in {"posting", "delay"} THEN retry[r].i
    ELSE IF retry[r].pc = "done" THEN Len(retry[r].recentErrors)
    ELSE 0

\* The outcome of the n-th selected key has been applied: its result is recorded
\* and, when accepted, its receipt is appended and its failures are removed
Applied(r, n) ==
    /\ n <= Len(retry[r].results)
    /\ ResultKey(retry[r].results[n]) = KeyOf(retry[r].recentErrors[n])
    /\ retry[r].results[n].success =>
          /\ KeyOf(retry[r].recentErrors[n]) \in KeysIn(receiptsFile)
          /\ KeyOf(retry[r].recentErrors[n]) \notin KeysIn(errorsFile)

\* One submission per selected key, one after the other: the selected keys are
\* distinct, the n-th submission is for the n-th selected key, and while the n-th
\* is in flight the outcomes of exactly the n - 1 before it have been applied;
\* at the end every selected key has one result.
C37_Sequential ==
    LET r == "req1"
    IN  /\ \A n, k \in 1..Len(retry[r].recentErrors) :
              n # k => KeyOf(retry[r].recentErrors[n]) # KeyOf(retry[r].recentErrors[k])
        /\ Issued(r) <= Len(retry[r].recentErrors)
        /\ retry[r].pc = "posting" =>
              /\ Len(retry[r].results) = Issued(r) - 1
              /\ \A n \in 1..(Issued(r) - 1) : Applied(r, n)
        /\ retry[r].pc \in {"delay", "done"} =>
              /\ Len(retry[r].results) = Issued(r)
              /\ \A n \in 1..Issued(r) : Applied(r, n)
        /\ retry[r].pc = "done" =>
              /\ retry[r].total = Len(retry[r].recentErrors)
              /\ retry[r].succeeded + retry[r].failed = retry[r].total

\* A request that has issued a submission ends
C37_Terminates == (retry["req1"].pc = "posting") ~> (retry["req1"].pc = "done")

---------------------------------------------------------------------------
(* Claims on the retry-eligibility count (SpecEligible) *)

\* The request has made its selection and applied no outcome yet, and the history
\* was computed from the logs as they are, at the same instant
SameSnapshot(r) ==
    /\ lastHistory # <<>>
    /\ \/ retry[r].pc = "posting" /\ retry[r].i = 1
       \/ retry[r].pc = "done" /\ retry[r].recentErrors = <<>>
    /\ retry[r].results = <<>>
    /\ lastHistory[1].snapReceipts = receiptsFile
    /\ lastHistory[1].snapErrors = errorsFile
    /\ lastHistory[1].at = now

\* C38: on the same snapshot of both logs and at the same instant, the 24-hour
\* recent-failure count of the mining history equals the number of submissions
\* retry-all selects (its summary total).
C38_CountAgreesWithSelection ==
    SameSnapshot("req1") =>
        /\ lastHistory[1].recentFailureCount = Len(retry["req1"].recentErrors)
        /\ retry["req1"].pc = "done" => retry["req1"].total = lastHistory[1].recentFailureCount

\* Two solutions failed; one has an event exactly 24 hours old and a later one, the
\* other only the old one: the count is 1 and one submission is selected
C38_Witness ==
    /\ SameSnapshot("req1")
    /\ now = TickMs
    /\ receiptsFile = <<>>
    /\ Len(errorsFile) = 3
    /\ Cardinality(KeysIn(errorsFile)) = 2
    /\ lastHistory[1].recentFailureCount = 1
    /\ Len(retry["req1"].recentErrors) = 1
    /\ \E i, j \in 1..3 : /\ KeyOf(errorsFile[i]) = KeyOf(errorsFile[j])
                          /\ errorsFile[i].ts = 0
                          /\ errorsFile[j].ts = 1

---------------------------------------------------------------------------
(* Claims on the profile manager (SpecProfiles) *)

\* The last call was setActiveProfile
ProfileSelected == lastProfile # <<>> /\ lastProfile[1].op = "setActiveProfile"

\* The id is held by a built-in and by a custom profile
SharedId(id) == MapHas(builtInProfiles, id) /\ MapHas(customProfiles, id)

\* The profiles that getAllProfiles lists for the id
ListedFor(id) ==
    LET all == getAllProfiles(builtInProfiles, customProfiles)
    IN  { all[i] : i \in { j \in 1..Len(all) : all[j].id = id } }

\* getAllProfiles lists one profile for an id shared by a built-in and a custom
\* profile, the custom one
C39_ListingPrefersCustom ==
    \A id \in ProfileIds :
        SharedId(id) => ListedFor(id) = { MapGet(customProfiles, id)[1] }

\* setActiveProfile with an id that no profile has returns false and leaves the
\* active profile as it was; with an id that a profile has it returns true
C39_UnknownIdRejected ==
    ProfileSelected =>
        LET call == lastProfile[1]
            known == MapHas(builtInProfiles, call.id) \/ MapHas(customProfiles, call.id)
        IN  /\ call.ret <=> known
            /\ ~known => getActiveProfile(activeProfile) = call.before

\* C39: when a built-in and a custom profile share an id, the profile that
\* getAllProfiles lists for the id and the profile that setActiveProfile makes
\* active, which getActiveProfile returns, are the same one, the custom profile;
\* setActiveProfile with an unknown id returns false and leaves the active
\* profile unchanged.
C39_CustomOverridesConsistently ==
    /\ C39_ListingPrefersCustom
    /\ C39_UnknownIdRejected
    /\ (ProfileSelected /\ SharedId(lastProfile[1].id)) =>
          /\ getActiveProfile(activeProfile) = MapGet(customProfiles, lastProfile[1].id)
          /\ ListedFor(lastProfile[1].id) = { getActiveProfile(activeProfile)[1] }

\* What the code keeps of C39: the listing and the rejection of unknown ids
C39_ListingAndRejection == C39_ListingPrefersCustom /\ C39_UnknownIdRejected

\* What setActiveProfile does with a shared id: the built-in profile is active
C39_SharedIdActivatesBuiltIn ==
    (ProfileSelected /\ SharedId(lastProfile[1].id)) =>
        getActiveProfile(activeProfile) = MapGet(builtInProfiles, lastProfile[1].id)

\* A shared id has been selected, and an unknown one refused
C39_SharedSelected == ProfileSelected /\ SharedId(lastProfile[1].id) /\ lastProfile[1].ret

C39_UnknownRefused ==
    ProfileSelected /\ lastProfile[1].id = UnknownProfileId /\ ~lastProfile[1].ret
        /\ activeProfile # <<>>
=============================================================================
